---- MODULE Spec2Model ----
(***************************************************************************)
(* Chronicle: candle aggregation, 1-minute acquisition, the live candle    *)
(* updater with add_timeframe, and replay.                                 *)
(*                                                                         *)
(* Time is in milliseconds, as in the source, counted from a UTC midnight  *)
(* that lies in Eastern standard time (UTC-5), so that floor(t / I) * I    *)
(* and the 18:00 ET session start mean what they mean on the real clock.   *)
(* Prices are positive integers; NULL stands for JavaScript null.          *)
(***************************************************************************)
EXTENDS Integers, Sequences, FiniteSets, TLC

VARIABLES
    sessionBoundaryCache,   \* candle-processor.js: Map dayKey -> session start
    aggPc, aggTimeframe, aggStart, aggEnd, aggInput, aggResult,
    aligned,                \* the last bucket start computed on its own:
                            \* timestamp, timeframe and the value returned
    \* the replay fields of the connection object ws
    activeReplaySubscriptions, replayData, replayInterval, replayIsActive,
    replayIsPaused, replayIntervalMs, replayCurrentTime, replayLiveEndMs,
    liveStartMs,            \* handleGetReplay: liveStartMs of the last request
    replayOut,              \* the bars and the completion message sent
                            \* since the last get_replay request
    timers,                 \* the setInterval timers that are scheduled
    replayRequests,         \* get_replay requests received
    now,                    \* Date.now()
    candlesTable,           \* db: the rows of CANDLES, timeframe "1m", per
                            \* instrument: timestamp -> <<o, h, l, c, volume>>
    \* the live fields of the connection object ws
    activeSubscriptions, wsStartMs, wsEndMs, isLiveActive,
    isProcessingTimeframeChange, tradeQueue, open1mCandles, openCandles,
    liveClient,
    next1mStarts,           \* handleGetData: the object the trade callback
                            \* closes over
    sockets,                \* the upstream sockets that are open: id -> kind
    socketsOpened,          \* sockets created so far
    handlers,               \* the handleAddTimeframe calls that are waiting
                            \* at an await: id -> their locals
    addRequests,            \* add_timeframe requests that passed the checks
    getDataRequests,        \* get_data requests received
    tradesSent,             \* trades the vendor has delivered
    liveOut,                \* the bars sent to the client by outputFunc
    applied,                \* ids of the trades that reached the candle
                            \* update of processTradeForClient, in order
    queuedEver,             \* ids of the trades ever pushed to ws.tradeQueue
    offered,                \* <<source, is null>> of the bars handed to
                            \* batchInsertCandles
    fetchLog,               \* upstream requests of the last get_data
    acqRequest,             \* the last get_data request
    acqCached,              \* what it read from the cache
    acqSeries,              \* the 1-minute series it built
    subscriptions,          \* the handleGetData calls that wait for their
                            \* trade subscription to end: socket -> live_data
    liveTimers,             \* sockets whose live_data timeout is scheduled
    wsOpen,                 \* the client connection is open
    fetch,                  \* data-fetcher.js: the upstream call in progress
    stratSubscribers,       \* db: the subscribers array of a STRATEGIES row
    stratHandlers,          \* the handleSubStrat and handleUnsubStrat calls
                            \* that wait for a callback of the database:
                            \* clientid -> their locals
    stratAcks,              \* clientid -> the action of the last request
                            \* answered "Successfully ..."
    stratRequests           \* sub_strat and unsub_strat requests received

stratVars == <<stratSubscribers, stratHandlers, stratAcks, stratRequests>>

\* the variables of aggregateCandles on its own, and the strategy variables,
\* which no handler of the candle sessions touches
aggVars == <<aggPc, aggTimeframe, aggStart, aggEnd, aggInput, aggResult,
             aligned, stratVars>>

replayVars == <<activeReplaySubscriptions, replayData, replayInterval,
                replayIsActive, replayIsPaused, replayIntervalMs,
                replayCurrentTime, replayLiveEndMs, liveStartMs, replayOut,
                timers, replayRequests>>

wsVars == <<activeSubscriptions, wsStartMs, wsEndMs, isLiveActive,
            isProcessingTimeframeChange, tradeQueue, open1mCandles,
            openCandles, liveClient, next1mStarts>>

acqVars == <<fetchLog, acqRequest, acqCached, acqSeries, getDataRequests,
             fetch>>

sessionVars == <<subscriptions, liveTimers, wsOpen>>

liveVars == <<now, candlesTable, wsVars, sockets, socketsOpened, handlers,
              addRequests, tradesSent, liveOut, applied, queuedEver, offered,
              acqVars, sessionVars>>

vars == <<sessionBoundaryCache, aggVars, replayVars, liveVars>>

NULL == -1

MINUTE == 60000
HOUR == 60 * MINUTE
DAY == 24 * HOUR

----------------------------------------------------------------------------
(* Generic helpers                                                          *)

Max(a, b) == IF a >= b THEN a ELSE b
Min(a, b) == IF a <= b THEN a ELSE b

Range(s) == {s[i] : i \in 1..Len(s)}

Timestamps(s) == {s[i].timestamp : i \in 1..Len(s)}

SetMax(S) == CHOOSE x \in S : \A y \in S : y <= x
SetMin(S) == CHOOSE x \in S : \A y \in S : x <= y

\* Array.prototype.filter with the predicate "timestamp in [lo, hi]"
RECURSIVE FilterRange(_, _, _)
FilterRange(s, lo, hi) ==
    IF s = <<>> THEN <<>>
    ELSE IF Head(s).timestamp >= lo /\ Head(s).timestamp <= hi
         THEN <<Head(s)>> \o FilterRange(Tail(s), lo, hi)
         ELSE FilterRange(Tail(s), lo, hi)

\* insertion of c after every element with timestamp <= c.timestamp
RECURSIVE InsertSorted(_, _)
InsertSorted(s, c) ==
    IF s = <<>> THEN <<c>>
    ELSE IF Head(s).timestamp <= c.timestamp
         THEN <<Head(s)>> \o InsertSorted(Tail(s), c)
         ELSE <<c>> \o s

\* candles.sort((a, b) => a.timestamp - b.timestamp): a stable sort
RECURSIVE SortByTimestamp(_)
SortByTimestamp(s) ==
    IF s = <<>> THEN <<>>
    ELSE InsertSorted(SortByTimestamp(SubSeq(s, 1, Len(s) - 1)), s[Len(s)])

----------------------------------------------------------------------------
(* utils.js: parseTimeframeMs                                               *)

\* the timeframe strings of the model and what /^(\d+)([mhd])$/ captures in
\* each; a string the expression does not match has no captures
TimeframeMatch(timeframe) ==
    CASE timeframe = "1m" -> <<1, "m">>
      [] timeframe = "5m" -> <<5, "m">>
      [] timeframe = "4h" -> <<4, "h">>
      [] timeframe = "1h" -> <<1, "h">>
      [] timeframe = "5h" -> <<5, "h">>
      [] timeframe = "1d" -> <<1, "d">>
      [] OTHER -> <<>>

parseTimeframeMs(timeframe) ==
    LET match == TimeframeMatch(timeframe) IN
    IF match = <<>> THEN NULL
    ELSE LET value == match[1]
             unit == match[2]
             multiplier == IF unit = "m" THEN 60 * 1000
                           ELSE IF unit = "h" THEN 60 * 60 * 1000
                           ELSE 24 * 60 * 60 * 1000
         IN value * multiplier

----------------------------------------------------------------------------
(* candle-processor.js: session alignment                                   *)

\* offset of America/New_York from UTC on the days of the model (standard
\* time), what the toLocaleString arithmetic of the source evaluates to
EasternOffsetMs == 5 * HOUR

\* result and the cache after the call
getSessionStartUTC(utcTimestamp, cache) ==
    LET dayKey == utcTimestamp \div DAY IN
    IF dayKey \in DOMAIN cache
    THEN [value |-> cache[dayKey], cache |-> cache]
    ELSE LET easternDay == (utcTimestamp - EasternOffsetMs) \div DAY
             sessionDate == easternDay * DAY + 18 * HOUR
             sessionStartUTC == sessionDate + EasternOffsetMs
         IN [value |-> sessionStartUTC,
             cache |-> [k \in DOMAIN cache \cup {dayKey} |->
                          IF k = dayKey THEN sessionStartUTC ELSE cache[k]]]

\* the arithmetic of getSessionBasedAlignment on r, the session start found
SessionAligned(timestamp, intervalMs, r) ==
    LET baseSessionStart == IF timestamp < r.value THEN r.value - DAY
                            ELSE r.value
    IN [value |-> baseSessionStart
                    + ((timestamp - baseSessionStart) \div intervalMs) * intervalMs,
        cache |-> r.cache]

getSessionBasedAlignment(timestamp, intervalMs, cache) ==
    SessionAligned(timestamp, intervalMs, getSessionStartUTC(timestamp, cache))

needsSessionAlignment(timeframe) ==
    LET intervalMs == parseTimeframeMs(timeframe) IN
    intervalMs > HOUR /\ intervalMs <= DAY

\* the bucket start the callers compute: session based or
\* Math.floor(t / intervalMs) * intervalMs
AlignedStart(timestamp, timeframe, cache) ==
    IF needsSessionAlignment(timeframe)
    THEN getSessionBasedAlignment(timestamp, parseTimeframeMs(timeframe), cache)
    ELSE [value |-> (timestamp \div parseTimeframeMs(timeframe))
                        * parseTimeframeMs(timeframe),
          cache |-> cache]

----------------------------------------------------------------------------
(* candle-processor.js: aggregateCandles                                    *)

NoCandle == [timestamp |-> NULL]

\* a new output bar seeded from a 1-minute bar
NewAggregate(baseTime, candle1m, timeframe) ==
    [timestamp |-> baseTime, open |-> candle1m.open, high |-> candle1m.high,
     low |-> candle1m.low, close |-> candle1m.close,
     volume |-> candle1m.volume, timeframe |-> timeframe, source |-> "A",
     isClosed |-> FALSE]

UpdateAggregateNoVolume(currentCandle, candle1m) ==
    [currentCandle EXCEPT !.high = Max(currentCandle.high, candle1m.high),
                          !.low = Min(currentCandle.low, candle1m.low),
                          !.close = candle1m.close]

\* the else branch of the fold: high, low, close, volume
UpdateAggregate(currentCandle, candle1m) ==
    [currentCandle EXCEPT !.high = Max(currentCandle.high, candle1m.high),
                          !.low = Min(currentCandle.low, candle1m.low),
                          !.close = candle1m.close,
                          !.volume = currentCandle.volume + candle1m.volume]

HybridIsClosedLaterOnly(currentCandle, currentCandleTimestamps, intervalMs, maxTs) ==
    maxTs >= currentCandle.timestamp + intervalMs

\* the hybrid "isClosed" rule: hasLaterData || hasLastPossible
HybridIsClosed(currentCandle, currentCandleTimestamps, intervalMs, maxTs) ==
    LET lastPossibleTs == currentCandle.timestamp + intervalMs - 60000
        hasLastPossible == lastPossibleTs \in currentCandleTimestamps
        hasLaterData == maxTs >= currentCandle.timestamp + intervalMs
    IN hasLaterData \/ hasLastPossible

\* the bar pushed to the result when its bucket ends
ClosedByHybridRule(st, intervalMs, maxTs) ==
    [st.currentCandle EXCEPT !.isClosed =
        HybridIsClosed(st.currentCandle, st.currentCandleTimestamps,
                       intervalMs, maxTs)]

\* one iteration of the for loop, a the aligned start of the bar's bucket
AggregateStep(candle1m, timeframe, maxTs, st, a) ==
    IF st.currentCandle = NoCandle \/ a.value # st.currentCandle.timestamp
    THEN [result |-> IF st.currentCandle = NoCandle THEN st.result
                     ELSE Append(st.result,
                            ClosedByHybridRule(st, parseTimeframeMs(timeframe),
                                               maxTs)),
          currentCandle |-> NewAggregate(a.value, candle1m, timeframe),
          currentCandleTimestamps |-> {candle1m.timestamp},
          cache |-> a.cache]
    ELSE [result |-> st.result,
          currentCandle |-> UpdateAggregate(st.currentCandle, candle1m),
          currentCandleTimestamps |->
              st.currentCandleTimestamps \cup {candle1m.timestamp},
          cache |-> a.cache]

\* the for loop; st carries result, currentCandle, currentCandleTimestamps
\* and the session boundary cache
RECURSIVE AggregateFold(_, _, _, _)
AggregateFold(candles1m, timeframe, maxTs, st) ==
    IF candles1m = <<>> THEN st
    ELSE AggregateFold(Tail(candles1m), timeframe, maxTs,
           AggregateStep(Head(candles1m), timeframe, maxTs, st,
              AlignedStart(Head(candles1m).timestamp, timeframe, st.cache)))

\* Math.max(...candles1m.map(c => c.timestamp))
AggregateMaxTs(candles1m) ==
    IF candles1m = <<>> THEN NULL ELSE SetMax(Timestamps(candles1m))

\* after the loop: push the last bar, filter to [start, end]
AggregateFinish(st, intervalMs, maxTs, start, end) ==
    [result |-> FilterRange(IF st.currentCandle = NoCandle THEN st.result
                            ELSE Append(st.result,
                                   ClosedByHybridRule(st, intervalMs, maxTs)),
                            start, end),
     cache |-> st.cache]

\* result: the bars returned; cache: the session boundary cache afterwards
aggregateCandles(timeframe, start, end, candles1m, cache) ==
    IF timeframe = "1m"
    THEN [result |-> FilterRange(candles1m, start, end), cache |-> cache]
    ELSE AggregateFinish(
           AggregateFold(SortByTimestamp(candles1m), timeframe,
              AggregateMaxTs(candles1m),
              [result |-> <<>>, currentCandle |-> NoCandle,
               currentCandleTimestamps |-> {}, cache |-> cache]),
           parseTimeframeMs(timeframe), AggregateMaxTs(candles1m), start, end)

----------------------------------------------------------------------------
(* Aggregation of a 1-minute series: the inputs                             *)

\* number of 1-minute slots an input series is drawn from
MaxSlots == 7

\* the first slot, 02:58 UTC of day 1: the slots cross the 5m boundary and
\* the 4h session boundary at 03:00 UTC (18:00 ET + 4h)
AggBase == DAY + 3 * HOUR - 2 * MINUTE

Bar1m(ts, shape, source) ==
    [timestamp |-> ts, open |-> shape[1], high |-> shape[2], low |-> shape[3],
     close |-> shape[4], volume |-> shape[5], timeframe |-> "1m",
     source |-> source, isClosed |-> TRUE]

\* the series with a bar at every slot of the domain of f, ascending
RECURSIVE SeriesOf(_, _)
SeriesOf(f, source) ==
    IF DOMAIN f = {} THEN <<>>
    ELSE LET t == SetMin(DOMAIN f)
             rest == [x \in DOMAIN f \ {t} |-> f[x]]
         IN <<Bar1m(t, f[t], source)>> \o SeriesOf(rest, source)

AggTimeframes == {"5m", "4h"}

\* the state of a connection that has not asked for a replay
ReplayIdle ==
    /\ activeReplaySubscriptions = <<>>
    /\ replayData = <<>>
    /\ replayInterval = NULL
    /\ replayIsActive = FALSE
    /\ replayIsPaused = FALSE
    /\ replayIntervalMs = NULL
    /\ replayCurrentTime = NULL
    /\ replayLiveEndMs = NULL
    /\ liveStartMs = NULL
    /\ replayOut = <<>>
    /\ timers = {}
    /\ replayRequests = 0

\* the live fields of a connection that has made no request
WsIdle ==
    /\ activeSubscriptions = <<>>
    /\ wsStartMs = NULL
    /\ wsEndMs = NULL
    /\ isLiveActive = FALSE
    /\ isProcessingTimeframeChange = FALSE
    /\ tradeQueue = <<>>
    /\ open1mCandles = <<>>
    /\ openCandles = <<>>
    /\ liveClient = NULL
    /\ next1mStarts = <<>>
    /\ sockets = <<>>
    /\ socketsOpened = 0
    /\ handlers = <<>>
    /\ addRequests = 0
    /\ getDataRequests = 0
    /\ tradesSent = 0
    /\ liveOut = <<>>
    /\ applied = <<>>
    /\ queuedEver = {}
    /\ offered = {}
    /\ fetchLog = <<>>
    /\ acqRequest = <<>>
    /\ acqCached = <<>>
    /\ acqSeries = <<>>
    /\ subscriptions = <<>>
    /\ liveTimers = {}
    /\ wsOpen = TRUE
    /\ fetch = [fn |-> "idle", startMs |-> NULL, endMs |-> NULL,
                retryCount |-> 0, attempts |-> 0, open |-> 0,
                isHandlingError |-> FALSE, status |-> "none",
                result |-> "none", answers |-> <<>>]

\* no live request is made: the clock and the cache play no part
LiveIdle ==
    /\ WsIdle
    /\ now = 0
    /\ candlesTable = <<>>

AggInit ==
    /\ ReplayIdle
    /\ LiveIdle
    /\ sessionBoundaryCache = <<>>
    /\ aggPc = "input"
    /\ aligned = <<>>
    /\ stratSubscribers = <<>>
    /\ stratHandlers = <<>>
    /\ stratAcks = <<>>
    /\ stratRequests = 0
    /\ aggTimeframe \in AggTimeframes
    /\ aggStart \in {DAY, AggBase + 2 * MINUTE}
    /\ aggEnd = AggBase + MaxSlots * MINUTE
    /\ aggInput \in
         UNION {{SeriesOf(f, "H") :
                   f \in [P -> {<<100, 101, 99, 100, 10>>,
                                <<101, 102, 100, 101, 5>>}]} :
                P \in SUBSET {AggBase + k * MINUTE : k \in 0..(MaxSlots - 1)}}
    /\ aggResult = <<>>

\* one call of aggregateCandles
Aggregate ==
    /\ aggPc = "input"
    /\ LET r == aggregateCandles(aggTimeframe, aggStart, aggEnd, aggInput,
                                 sessionBoundaryCache)
       IN /\ aggResult' = r.result
          /\ sessionBoundaryCache' = r.cache
    /\ aggPc' = "output"
    /\ UNCHANGED <<aggTimeframe, aggStart, aggEnd, aggInput, aligned,
                   stratVars, replayVars, liveVars>>

\* the next call, with the module-level session cache as the last one left it
NextAggregateInput ==
    /\ aggPc = "output"
    /\ aggPc' = "input"
    /\ aggTimeframe' \in AggTimeframes
    /\ aggInput' \in {SeriesOf([t \in {AggBase + k * MINUTE : k \in 0..n} |->
                          <<100, 101, 99, 100, 10>>], "H") : n \in 0..(MaxSlots - 1)}
    /\ aggResult' = <<>>
    /\ UNCHANGED <<aggStart, aggEnd, aligned, stratVars, sessionBoundaryCache,
                   replayVars, liveVars>>

AggNext == Aggregate \/ NextAggregateInput

SpecAgg == AggInit /\ [][AggNext]_vars

----------------------------------------------------------------------------
(* replay-handlers.js                                                       *)

\* a data message as replayOutputFunc / outputFunc sends it
DataMessage(instrument, candle) ==
    [mtyp |-> "data", instrument |-> instrument,
     timeframe |-> candle.timeframe, timestamp |-> candle.timestamp,
     open |-> candle.open, high |-> candle.high, low |-> candle.low,
     close |-> candle.close, volume |-> candle.volume,
     source |-> candle.source, isClosed |-> candle.isClosed]

CtrlMessage(text) == [mtyp |-> "ctrl", message |-> text]

\* candles.forEach(candle => output({...candle, source, isClosed: true}))
RECURSIVE EmitAllClosed(_, _, _)
EmitAllClosed(instrument, candles, source) ==
    IF candles = <<>> THEN <<>>
    ELSE <<DataMessage(instrument,
              [Head(candles) EXCEPT !.source = source, !.isClosed = TRUE])>>
         \o EmitAllClosed(instrument, Tail(candles), source)

\* one iteration of the for loop of aggregateReplayCandles, a the aligned
\* start of the bar's bucket
ReplayAggregateStep(candle1m, timeframe, st, a) ==
    IF st.currentCandle = NoCandle \/ a.value # st.currentCandle.timestamp
    THEN [result |-> IF st.currentCandle = NoCandle THEN st.result
                     ELSE Append(st.result,
                            [st.currentCandle EXCEPT !.isClosed = TRUE]),
          currentCandle |-> [NewAggregate(a.value, candle1m, timeframe)
                               EXCEPT !.source = NULL],
          cache |-> a.cache]
    ELSE [result |-> st.result,
          currentCandle |-> UpdateAggregate(st.currentCandle, candle1m),
          cache |-> a.cache]

\* the for loop of aggregateReplayCandles
RECURSIVE ReplayAggregateFold(_, _, _, _, _)
ReplayAggregateFold(candles1m, timeframe, start, end, st) ==
    IF candles1m = <<>> THEN st
    ELSE IF Head(candles1m).timestamp < start \/ Head(candles1m).timestamp > end
    THEN ReplayAggregateFold(Tail(candles1m), timeframe, start, end, st)
    ELSE ReplayAggregateFold(Tail(candles1m), timeframe, start, end,
           ReplayAggregateStep(Head(candles1m), timeframe, st,
              AlignedStart(Head(candles1m).timestamp, timeframe, st.cache)))

\* after the loop: the last bar is pushed, closed
ReplayAggregateFinish(st) ==
    [result |-> IF st.currentCandle = NoCandle THEN st.result
                ELSE Append(st.result,
                       [st.currentCandle EXCEPT !.isClosed = TRUE]),
     cache |-> st.cache]

aggregateReplayCandles(timeframe, start, end, candles1m, cache) ==
    IF timeframe = "1m"
    THEN [result |-> FilterRange(candles1m, start, end), cache |-> cache]
    ELSE ReplayAggregateFinish(
           ReplayAggregateFold(SortByTimestamp(candles1m), timeframe,
              start, end,
              [result |-> <<>>, currentCandle |-> NoCandle, cache |-> cache]))

\* candles1m.filter(c => c.timestamp < liveStartMs)
RECURSIVE FilterBefore(_, _)
FilterBefore(s, t) ==
    IF s = <<>> THEN <<>>
    ELSE IF Head(s).timestamp < t
         THEN <<Head(s)>> \o FilterBefore(Tail(s), t)
         ELSE FilterBefore(Tail(s), t)

\* candles1m.findIndex(c => c.timestamp >= liveStartMs), or the length
LiveStartIndex(candles1m, liveStart) ==
    IF \E i \in 1..Len(candles1m) : candles1m[i].timestamp >= liveStart
    THEN (CHOOSE i \in 1..Len(candles1m) :
            /\ candles1m[i].timestamp >= liveStart
            /\ \A j \in 1..(i - 1) : candles1m[j].timestamp < liveStart) - 1
    ELSE Len(candles1m)

\* the messages of one timeframe's history: the 1-minute bars before
\* live_start, or r, their aggregation
ReplayHistoryOut(symbol, timeframe, candles, st, r) ==
    IF timeframe = "1m"
    THEN [out |-> st.out \o
             [i \in 1..Len(candles) |->
                DataMessage(symbol, [candles[i] EXCEPT !.isClosed = TRUE])],
          cache |-> st.cache]
    ELSE [out |-> st.out \o EmitAllClosed(symbol, r.result, "A"),
          cache |-> r.cache]

\* "Send historical data for all requested timeframes up to liveStartMs"
RECURSIVE ReplayHistory(_, _, _, _, _, _)
ReplayHistory(symbol, timeframes, candles1m, historyStart, liveStart, st) ==
    IF timeframes = <<>> THEN st
    ELSE ReplayHistory(symbol, Tail(timeframes), candles1m, historyStart,
           liveStart,
           ReplayHistoryOut(symbol, Head(timeframes),
              FilterBefore(candles1m, liveStart), st,
              IF Head(timeframes) = "1m" THEN [result |-> <<>>, cache |-> st.cache]
              ELSE aggregateReplayCandles(Head(timeframes), historyStart,
                     liveStart, FilterBefore(candles1m, liveStart), st.cache)))

\* the higher timeframes that start with no open aggregate
OpenAggregatesInit(timeframes) ==
    [tf \in Range(timeframes) \ {"1m"} |-> NoCandle]

\* ws.replayData[symbol] and the output after the history h of the symbol
ReplayLoaded(symbol, candles1m, timeframes, liveStart, st, h) ==
    [replayData |->
        [k \in DOMAIN st.replayData \cup {symbol} |->
           IF k = symbol
           THEN [candles1m |-> candles1m,
                 currentIndex |-> LiveStartIndex(candles1m, liveStart),
                 openAggregateCandles |-> OpenAggregatesInit(timeframes)]
           ELSE st.replayData[k]],
     out |-> h.out, cache |-> h.cache]

\* "Process each symbol": store the series, send the history, set the index
RECURSIVE ReplayLoadSymbols(_, _, _, _, _, _)
ReplayLoadSymbols(symbols, subs, series, historyStart, liveStart, st) ==
    IF symbols = <<>> THEN st
    ELSE ReplayLoadSymbols(Tail(symbols), subs, series, historyStart, liveStart,
           ReplayLoaded(Head(symbols), series[Head(symbols)],
              subs[Head(symbols)], liveStart, st,
              ReplayHistory(Head(symbols), subs[Head(symbols)],
                 series[Head(symbols)], historyStart, liveStart,
                 [out |-> st.out, cache |-> st.cache])))

RECURSIVE SelectIn(_, _)
SelectIn(s, S) ==
    IF s = <<>> THEN <<>>
    ELSE IF Head(s) \in S THEN <<Head(s)>> \o SelectIn(Tail(s), S)
         ELSE SelectIn(Tail(s), S)

\* the instruments of a request in the order for..in visits them
SymbolsOf(f) == SelectIn(<<"ES", "NQ">>, DOMAIN f)

MAX_SAFE_INTEGER == 2147483647

\* the open aggregate of a timeframe after the current 1-minute bar
ReplayStarted(old, baseTime, currentCandle, timeframe) ==
    IF old = NoCandle \/ old.timestamp # baseTime
    THEN [NewAggregate(baseTime, currentCandle, timeframe) EXCEPT !.source = "T"]
    ELSE UpdateAggregate(old, currentCandle)

\* isLastCandleInInterval closes the aggregate
ReplayClosedAtLast(started, currentCandle, intervalMs) ==
    IF currentCandle.timestamp = started.timestamp + intervalMs - 60000
    THEN [started EXCEPT !.isClosed = TRUE]
    ELSE started

\* the aggregate is emitted, and dropped when it was closed
ReplayFeedOut(timeframe, symbol, st, openCandle, cache) ==
    [open |-> [st.open EXCEPT ![timeframe] =
                 IF openCandle.isClosed THEN NoCandle ELSE openCandle],
     out |-> Append(st.out, DataMessage(symbol, openCandle)),
     cache |-> cache]

\* one higher timeframe of the tick, a the aligned start of the bar's bucket
ReplayFeedTimeframe(timeframe, symbol, currentCandle, st, a) ==
    ReplayFeedOut(timeframe, symbol, st,
       ReplayClosedAtLast(
          ReplayStarted(st.open[timeframe], a.value, currentCandle, timeframe),
          currentCandle, parseTimeframeMs(timeframe)),
       a.cache)

\* one pass of "for (const timeframe of ws.activeReplaySubscriptions[symbol])"
RECURSIVE ReplayFeedTimeframes(_, _, _, _)
ReplayFeedTimeframes(timeframes, symbol, currentCandle, st) ==
    IF timeframes = <<>> THEN st
    ELSE IF Head(timeframes) = "1m"
    THEN ReplayFeedTimeframes(Tail(timeframes), symbol, currentCandle, st)
    ELSE ReplayFeedTimeframes(Tail(timeframes), symbol, currentCandle,
           ReplayFeedTimeframe(Head(timeframes), symbol, currentCandle, st,
              AlignedStart(currentCandle.timestamp, Head(timeframes), st.cache)))

\* the 1-minute bar of the tick, emitted when "1m" is subscribed
ReplayFeed1m(symbol, timeframes, currentCandle, out) ==
    IF "1m" \in Range(timeframes)
    THEN Append(out, DataMessage(symbol,
           [currentCandle EXCEPT !.source = "T", !.isClosed = TRUE]))
    ELSE out

\* the symbol's state after its bar was fed, f the result of the timeframes
ReplayFed(symbol, st, f) ==
    [replayData |-> [st.replayData EXCEPT ![symbol] =
        [@ EXCEPT !.openAggregateCandles = f.open,
                  !.currentIndex = @ + 1]],
     out |-> f.out, cache |-> f.cache, anyActive |-> TRUE,
     nextCandleTime |-> st.nextCandleTime]

\* the tick with a due test that looks one minute ahead
ReplayFeedSymbolAhead(symbol, timeframes, currentTime, st, data) ==
    IF data.currentIndex < Len(data.candles1m)
    THEN IF data.candles1m[data.currentIndex + 1].timestamp <= currentTime + 60000
         THEN ReplayFed(symbol, st,
                ReplayFeedTimeframes(timeframes, symbol,
                   data.candles1m[data.currentIndex + 1],
                   [open |-> data.openAggregateCandles,
                    out |-> ReplayFeed1m(symbol, timeframes,
                              data.candles1m[data.currentIndex + 1], st.out),
                    cache |-> st.cache]))
         ELSE [st EXCEPT !.nextCandleTime =
                 Min(st.nextCandleTime,
                     data.candles1m[data.currentIndex + 1].timestamp)]
    ELSE st

\* one symbol of the tick, data its entry of ws.replayData
ReplayFeedSymbol(symbol, timeframes, currentTime, st, data) ==
    IF data.currentIndex < Len(data.candles1m)
    THEN IF data.candles1m[data.currentIndex + 1].timestamp <= currentTime
         THEN ReplayFed(symbol, st,
                ReplayFeedTimeframes(timeframes, symbol,
                   data.candles1m[data.currentIndex + 1],
                   [open |-> data.openAggregateCandles,
                    out |-> ReplayFeed1m(symbol, timeframes,
                              data.candles1m[data.currentIndex + 1], st.out),
                    cache |-> st.cache]))
         ELSE [st EXCEPT !.nextCandleTime =
                 Min(st.nextCandleTime,
                     data.candles1m[data.currentIndex + 1].timestamp)]
    ELSE st

\* one pass of "for (const symbol in ws.replayData)"
RECURSIVE ReplayFeedSymbols(_, _, _, _)
ReplayFeedSymbols(symbols, subs, currentTime, st) ==
    IF symbols = <<>> THEN st
    ELSE ReplayFeedSymbols(Tail(symbols), subs, currentTime,
           ReplayFeedSymbol(Head(symbols), subs[Head(symbols)], currentTime,
              st, st.replayData[Head(symbols)]))

\* clearInterval(handle)
ClearInterval(running, handle) == running \ {handle}

----------------------------------------------------------------------------
(* Replay: the requests of the model                                        *)

\* number of 1-minute slots between history_start and the last live_end
MaxReplaySlots == 6

\* get_replay requests and setInterval calls a run may make
MaxReplayRequests == 2
MaxTimers == 3

\* history_start: 03:00 UTC of day 1, a 5m and 4h session boundary
ReplayBase == DAY + 3 * HOUR

ReplaySlot(k) == ReplayBase + k * MINUTE

ReplaySeriesOver(S) == SeriesOf([t \in S |-> IF (t \div MINUTE) % 2 = 0
                                             THEN <<100, 101, 99, 100, 10>>
                                             ELSE <<101, 102, 100, 101, 5>>], "C")

\* the sets of 1-minute slots the instrument traded in: every slot, the
\* closing slot of the first 5m bucket missing, a gap in the middle, none
\* what the acquisition of handleGetReplay (cache, then the historical
\* fetches) can leave in candles1m: a sorted series inside
\* [history_start, live_end]
ReplaySeries(liveEnd) ==
    LET all == {ReplaySlot(k) : k \in 0..(MaxReplaySlots - 1)}
    IN {ReplaySeriesOver({t \in S : t <= liveEnd}) :
          S \in {all, all \ {ReplaySlot(4)},
                 {ReplaySlot(0), ReplaySlot(1), ReplaySlot(MaxReplaySlots - 1)},
                 {}}}

\* the series of the second instrument
SecondSeries == {ReplaySeriesOver({ReplaySlot(1), ReplaySlot(4)})}

\* the session after the symbols were loaded (st) and the timer was started
ReplayStart(subs, liveStart, liveEnd, replay_interval, st) ==
    /\ replayRequests < MaxReplayRequests
    /\ Cardinality(timers) < MaxTimers
    /\ replayRequests' = replayRequests + 1
    /\ activeReplaySubscriptions' = subs
    /\ replayIsActive' = TRUE
    /\ replayIsPaused' = FALSE
    /\ replayIntervalMs' = replay_interval
    /\ liveStartMs' = liveStart
    /\ replayData' = st.replayData
    /\ sessionBoundaryCache' = st.cache
    /\ IF liveStart < liveEnd
       THEN \E id \in 1..MaxTimers :
              /\ id \notin timers
              /\ \A j \in 1..(id - 1) : j \in timers
              /\ replayCurrentTime' = liveStart
              /\ replayLiveEndMs' = liveEnd
              /\ replayInterval' = id
              /\ timers' = timers \cup {id}
              /\ replayOut' = st.out
       ELSE /\ replayOut' = Append(st.out,
                  CtrlMessage("Replay completed (no live data)"))
            /\ replayInterval' = NULL
            /\ UNCHANGED <<replayCurrentTime, replayLiveEndMs, timers>>
    /\ UNCHANGED <<aggVars, liveVars>>

handleGetReplay(subs, series, historyStart, liveStart, liveEnd, replay_interval) ==
    ReplayStart(subs, liveStart, liveEnd, replay_interval,
       ReplayLoadSymbols(SymbolsOf(subs), subs, series, historyStart, liveStart,
          [replayData |-> <<>>, out |-> <<>>, cache |-> sessionBoundaryCache]))

\* a get_replay request of the client
GetReplay ==
    \E liveStart \in {ReplaySlot(0), ReplaySlot(2)},
       tfs \in {<<"5m">>, <<"1m", "5m">>}, replay_interval \in {1000} :
    \E liveEnd \in {liveStart, ReplaySlot(MaxReplaySlots - 1)} :
    \E es \in IF replayRequests = 0 THEN ReplaySeries(liveEnd)
               ELSE {ReplaySeriesOver({ReplaySlot(k) :
                                          k \in 0..(MaxReplaySlots - 1)})} :
    \E subs \in {[i \in {"ES"} |-> tfs]}
                \cup {[i \in {"ES", "NQ"} |-> IF i = "ES" THEN tfs ELSE <<"1m">>]} :
    \E series \in {f \in [DOMAIN subs -> {es} \cup SecondSeries] :
                     /\ f["ES"] = es
                     /\ "NQ" \in DOMAIN subs => f["NQ"] \in SecondSeries} :
       handleGetReplay(subs, series, ReplayBase, liveStart, liveEnd,
                       replay_interval)

\* replayCurrentTime after a tick: the jump to the next bar, or one minute
ReplayNextTimeJumpOnly(st) ==
    IF /\ ~st.anyActive
       /\ replayCurrentTime < replayLiveEndMs
       /\ st.nextCandleTime < MAX_SAFE_INTEGER
    THEN st.nextCandleTime
    ELSE replayCurrentTime

\* the clock that only ever moves by one minute
ReplayNextTimeMinuteOnly(st) == replayCurrentTime + 60000

ReplayNextTime(st) ==
    IF /\ ~st.anyActive
       /\ replayCurrentTime < replayLiveEndMs
       /\ st.nextCandleTime < MAX_SAFE_INTEGER
    THEN st.nextCandleTime
    ELSE replayCurrentTime + 60000

\* the end of a tick: the time advances, the replay completes past live_end
ReplayAdvance(st, newTime) ==
    /\ replayData' = st.replayData
    /\ sessionBoundaryCache' = st.cache
    /\ replayCurrentTime' = newTime
    /\ IF newTime > replayLiveEndMs
       THEN /\ timers' = ClearInterval(timers, replayInterval)
            /\ replayIsActive' = FALSE
            /\ replayOut' = Append(st.out, CtrlMessage("Replay completed"))
       ELSE /\ replayOut' = st.out
            /\ UNCHANGED <<timers, replayIsActive>>
    /\ UNCHANGED <<activeReplaySubscriptions, replayInterval,
                   replayIsPaused, replayIntervalMs, replayLiveEndMs,
                   liveStartMs, replayRequests>>

\* the symbols fed by a tick
ReplayFeed ==
    ReplayFeedSymbols(SymbolsOf(replayData), activeReplaySubscriptions,
       replayCurrentTime,
       [replayData |-> replayData, out |-> replayOut,
        cache |-> sessionBoundaryCache, anyActive |-> FALSE,
        nextCandleTime |-> MAX_SAFE_INTEGER])

\* the callback of setInterval, in handleGetReplay and in handleModifyReplay
TickWhilePaused ==
    /\ timers # {}
    /\ IF ~replayIsActive
       THEN /\ timers' = ClearInterval(timers, replayInterval)
            /\ UNCHANGED <<sessionBoundaryCache, activeReplaySubscriptions,
                           replayData, replayInterval, replayIsActive,
                           replayIsPaused, replayIntervalMs, replayCurrentTime,
                           replayLiveEndMs, liveStartMs, replayOut,
                           replayRequests>>
       ELSE IF FALSE
       THEN UNCHANGED <<sessionBoundaryCache, replayVars>>
       ELSE ReplayAdvance(ReplayFeed, ReplayNextTime(ReplayFeed))
    /\ UNCHANGED <<aggVars, liveVars>>

Tick ==
    /\ timers # {}
    /\ IF ~replayIsActive
       THEN /\ timers' = ClearInterval(timers, replayInterval)
            /\ UNCHANGED <<sessionBoundaryCache, activeReplaySubscriptions,
                           replayData, replayInterval, replayIsActive,
                           replayIsPaused, replayIntervalMs, replayCurrentTime,
                           replayLiveEndMs, liveStartMs, replayOut,
                           replayRequests>>
       ELSE IF replayIsPaused
       THEN UNCHANGED <<sessionBoundaryCache, replayVars>>
       ELSE ReplayAdvance(ReplayFeed, ReplayNextTime(ReplayFeed))
    /\ UNCHANGED <<aggVars, liveVars>>

handleModifyReplayFromStart(pause, replay_interval) ==
    IF ~replayIsActive
    THEN UNCHANGED vars
    ELSE
      LET paused == IF pause = "undefined" THEN replayIsPaused
                    ELSE pause = "true"
      IN /\ replayIsPaused' = paused
         /\ replayCurrentTime' = IF replay_interval # NULL THEN liveStartMs
                                ELSE replayCurrentTime
         /\ IF replay_interval # NULL /\ replay_interval > 0
            THEN IF replay_interval # replayIntervalMs
                 THEN \E id \in 1..MaxTimers :
                        /\ id \notin ClearInterval(timers, replayInterval)
                        /\ \A j \in 1..(id - 1) :
                              j \in ClearInterval(timers, replayInterval)
                        /\ timers' = ClearInterval(timers, replayInterval) \cup {id}
                        /\ replayInterval' = id
                        /\ replayIntervalMs' = replay_interval
                 ELSE UNCHANGED <<timers, replayInterval, replayIntervalMs>>
            ELSE UNCHANGED <<timers, replayInterval, replayIntervalMs>>
         /\ UNCHANGED <<sessionBoundaryCache, aggVars, liveVars, activeReplaySubscriptions,
                        replayData, replayIsActive,
                        replayLiveEndMs, liveStartMs, replayOut, replayRequests>>

handleModifyReplay(pause, replay_interval) ==
    IF ~replayIsActive
    THEN UNCHANGED vars
    ELSE
      LET paused == IF pause = "undefined" THEN replayIsPaused
                    ELSE pause = "true"
      IN /\ replayIsPaused' = paused
         /\ IF replay_interval # NULL /\ replay_interval > 0
            THEN IF replay_interval # replayIntervalMs
                 THEN \E id \in 1..MaxTimers :
                        /\ id \notin ClearInterval(timers, replayInterval)
                        /\ \A j \in 1..(id - 1) :
                              j \in ClearInterval(timers, replayInterval)
                        /\ timers' = ClearInterval(timers, replayInterval) \cup {id}
                        /\ replayInterval' = id
                        /\ replayIntervalMs' = replay_interval
                 ELSE UNCHANGED <<timers, replayInterval, replayIntervalMs>>
            ELSE UNCHANGED <<timers, replayInterval, replayIntervalMs>>
         /\ UNCHANGED <<sessionBoundaryCache, aggVars, liveVars, activeReplaySubscriptions,
                        replayData, replayIsActive, replayCurrentTime,
                        replayLiveEndMs, liveStartMs, replayOut, replayRequests>>

\* a modify_replay request of the client
ModifyReplay ==
    \E pause \in {"undefined", "true", "false"},
       replay_interval \in {NULL, 1000, 200} :
       /\ pause # "undefined" \/ replay_interval # NULL
       /\ handleModifyReplay(pause, replay_interval)

handleStopReplay ==
    /\ IF ~replayIsActive
       THEN UNCHANGED <<replayIsActive, replayInterval, timers>>
       ELSE /\ replayIsActive' = FALSE
            /\ timers' = ClearInterval(timers, replayInterval)
            /\ replayInterval' = NULL
    /\ UNCHANGED <<sessionBoundaryCache, aggVars, liveVars, activeReplaySubscriptions,
                   replayData, replayIsPaused, replayIntervalMs,
                   replayCurrentTime, replayLiveEndMs, liveStartMs, replayOut,
                   replayRequests>>

AggIdle ==
    /\ aggPc = "off"
    /\ aligned = <<>>
    /\ stratSubscribers = <<>>
    /\ stratHandlers = <<>>
    /\ stratAcks = <<>>
    /\ stratRequests = 0
    /\ aggTimeframe = "1m"
    /\ aggStart = 0
    /\ aggEnd = 0
    /\ aggInput = <<>>
    /\ aggResult = <<>>

ReplayInit ==
    /\ sessionBoundaryCache = <<>>
    /\ AggIdle
    /\ LiveIdle
    /\ ReplayIdle

ReplayNext == GetReplay \/ Tick \/ ModifyReplay \/ handleStopReplay

SpecReplay == ReplayInit /\ [][ReplayNext]_vars

\* the callback has something to do: a timer is scheduled, and the replay
\* is active and not paused, or it is inactive and its timer is still there
TickEnabled ==
    /\ timers # {}
    /\ IF replayIsActive THEN ~replayIsPaused ELSE replayInterval \in timers

\* the replay with a timer that keeps firing: setInterval calls its callback
\* again and again until clearInterval.  This is WF_vars(Tick), with
\* ENABLED <<Tick>>_vars written out as TickEnabled
SpecReplayFair ==
    SpecReplay /\ ([]<>(~TickEnabled) \/ []<><<Tick>>_vars)

----------------------------------------------------------------------------
(* db.js: the CANDLES table                                                 *)

ValidCandleAlways(candle) == TRUE

\* the filter of batchInsertCandles: not a "null" candle
ValidCandle(candle) ==
    /\ candle.volume > 0
    /\ candle.open # NULL
    /\ candle.high # NULL
    /\ candle.low # NULL
    /\ candle.close # NULL

\* INSERT OR REPLACE of each candle, in order
RECURSIVE Upsert(_, _)
Upsert(rows, candles) ==
    IF candles = <<>> THEN rows
    ELSE Upsert([t \in DOMAIN rows \cup {Head(candles).timestamp} |->
                   IF t = Head(candles).timestamp
                   THEN <<Head(candles).open, Head(candles).high,
                          Head(candles).low, Head(candles).close,
                          Head(candles).volume>>
                   ELSE rows[t]],
                Tail(candles))

\* the rows of one instrument after batchInsertCandles(db, candles, ..)
batchInsertCandles(rows, candles) ==
    Upsert(rows, SelectSeq(candles, ValidCandle))

\* SELECT .. WHERE timestamp BETWEEN startMs AND endMs ORDER BY timestamp
getCached1mCandles(rows, startMs, endMs) ==
    SeriesOf([t \in {x \in DOMAIN rows : x >= startMs /\ x <= endMs} |-> rows[t]],
             "C")

\* the rows of an instrument in the table
RowsOf(table, instrument) ==
    IF instrument \in DOMAIN table THEN table[instrument] ELSE <<>>

\* a Map keyed by instrument (or a socket table) with one entry set
WithEntry(map, key, value) ==
    [k \in DOMAIN map \cup {key} |-> IF k = key THEN value ELSE map[k]]

\* the "null" candles batchInsertCandles logs as skipped
IsNullCandle(candle) ==
    \/ candle.volume = 0
    \/ candle.open = NULL
    \/ candle.high = NULL
    \/ candle.low = NULL
    \/ candle.close = NULL

\* what a call of batchInsertCandles was handed: the source of each bar and
\* whether it is a null bar
Offers(candles) ==
    {<<candles[i].source, IsNullCandle(candles[i])>> : i \in 1..Len(candles)}

----------------------------------------------------------------------------
(* utils.js: the constants of the acquisition                               *)

EARLY_CANDLE_CUSHION_MINUTES == 4320
LATE_CANDLE_CUSHION_MINUTES == 180

----------------------------------------------------------------------------
(* data-fetcher.js: the vendor                                              *)

\* 03:00 UTC of day 4, a 5m boundary and a 4h session boundary
LiveBase == 4 * DAY + 3 * HOUR

\* the time of the first request, 03:02:00
FirstNow == LiveBase + 2 * MINUTE

\* number of 1-minute slots from LiveBase on in which the instrument trades
MaxMarketSlots == 6

\* the 1-minute slots the vendor has a bar for: two slots three days before
\* the first request, two slots three hours before it, and the recent ones
MarketSlots ==
    {FirstNow - LATE_CANDLE_CUSHION_MINUTES * MINUTE
        - EARLY_CANDLE_CUSHION_MINUTES * MINUTE - k * MINUTE : k \in 0..1}
    \cup {FirstNow - LATE_CANDLE_CUSHION_MINUTES * MINUTE - k * MINUTE : k \in 0..1}
    \cup {LiveBase + k * MINUTE : k \in 0..(MaxMarketSlots - 1)}

\* open, high, low, close, volume of the vendor's bar of a slot; the bars
\* of 00:01 three days before and of 03:03 have no volume
MarketShape(t) ==
    IF t \in {FirstNow - LATE_CANDLE_CUSHION_MINUTES * MINUTE
                - EARLY_CANDLE_CUSHION_MINUTES * MINUTE - MINUTE,
              LiveBase + 3 * MINUTE}
    THEN <<100, 100, 100, 100, 0>>
    ELSE IF (t \div MINUTE) % 2 = 0 THEN <<100, 101, 99, 100, 10>>
    ELSE <<101, 102, 100, 101, 5>>

\* the bars of the slots S, ascending, as the vendor sends them
MarketSeries(S, source) == SeriesOf([t \in S |-> MarketShape(t)], source)

\* the answers of the vendor: every bar it has in the range, no bar, an error
Outcomes == {"all", "empty", "error"}

\* the historical service can also lag a minute behind the live one
HistoricalOutcomes == Outcomes \cup {"lagging"}

\* the bars of a historical request: start and end are sent cut to the
\* minute; the vendor has the bars of the minutes that are over
fetchHistorical1mCandles(startMs, endMs, outcome, clock) ==
    IF outcome = "all" \/ outcome = "lagging"
    THEN MarketSeries({t \in MarketSlots :
                          /\ t >= (startMs \div MINUTE) * MINUTE
                          /\ t <= (endMs \div MINUTE) * MINUTE
                          /\ t + MINUTE <= clock
                          /\ outcome = "lagging" => t + 2 * MINUTE <= clock},
                      "H")
    ELSE <<>>

\* the bars fetchLive1mCandles collects: those inside [startMs, endMs]
fetchLive1mCandles(startMs, endMs, outcome, clock) ==
    IF outcome = "all"
    THEN MarketSeries({t \in MarketSlots :
                          /\ ~(t < startMs \/ t > endMs)
                          /\ t + MINUTE <= clock}, "L")
    ELSE <<>>

----------------------------------------------------------------------------
(* settings-handlers.js: the acquisition of handleGetData                   *)
(* An acquisition is carried as a record: candles1m, the rows of the        *)
(* instrument in the table, the upstream requests made, what was handed to  *)
(* batchInsertCandles, and whether the symbol was abandoned.                *)

\* an upstream request is made
Requested(a, part, kind, startMs, endMs) ==
    [a EXCEPT !.fetches = Append(@, [part |-> part, kind |-> kind,
                                     start |-> startMs, end |-> endMs])]

\* "if (save_cache) await batchInsertCandles(db, candles, symbol, '1m')",
\* in a try whose catch goes on with candles1m as it is; a write that the
\* database rejects is rolled back
Saved(a, save_cache, candles) ==
    IF save_cache
    THEN IF a.db = "write error" /\ SelectSeq(candles, ValidCandle) # <<>>
         THEN [a EXCEPT !.offered = @ \cup Offers(candles)]
         ELSE [a EXCEPT !.rows = batchInsertCandles(@, candles),
                        !.offered = @ \cup Offers(candles)]
    ELSE a

\* "No cached data, fetch the entire range"
GetDataFull(a, save_cache, outcome, response) ==
    IF outcome = "error" THEN [a EXCEPT !.failed = TRUE]
    ELSE IF /\ save_cache
            /\ a.db = "write error"
            /\ SelectSeq(response, ValidCandle) # <<>>
    THEN [a EXCEPT !.failed = TRUE, !.offered = @ \cup Offers(response)]
    ELSE Saved([a EXCEPT !.candles1m = response],
               save_cache /\ Len(response) > 0, response)

EarlyFetchNeededAtCushion(startMs, earliestCached) ==
    /\ startMs < earliestCached
    /\ ~(earliestCached - startMs < EARLY_CANDLE_CUSHION_MINUTES * 60 * 1000)

\* "Fill in earlier data if needed, but check cushion first"
EarlyFetchNeeded(startMs, earliestCached) ==
    /\ startMs < earliestCached
    /\ ~(earliestCached - startMs <= EARLY_CANDLE_CUSHION_MINUTES * 60 * 1000)

\* the earlier candles are put in front and saved
GetDataEarlier(a, save_cache, outcome, response) ==
    IF outcome # "error" /\ Len(response) > 0
    THEN Saved([a EXCEPT !.candles1m = response \o @], save_cache, response)
    ELSE a

GetDataEarly(a, startMs, earliestCached, save_cache, outcome, clock) ==
    IF EarlyFetchNeeded(startMs, earliestCached)
    THEN GetDataEarlier(
           Requested(a, "early", "historical", startMs, earliestCached - 60000),
           save_cache, outcome,
           fetchHistorical1mCandles(startMs, earliestCached - 60000, outcome,
                                    clock))
    ELSE a

LateFetchNeededWithinCushion(endMs, end_time, latestCached) ==
    /\ endMs > latestCached
    /\ ~(endMs - latestCached <= LATE_CANDLE_CUSHION_MINUTES * 60 * 1000)

\* "Fill in later data if needed, but check cushion first"; "If end_time is
\* specified, always try to fetch"
LateFetchNeeded(endMs, end_time, latestCached) ==
    /\ endMs > latestCached
    /\ IF end_time = "undefined" \/ end_time = "current"
       THEN ~(endMs - latestCached <= LATE_CANDLE_CUSHION_MINUTES * 60 * 1000)
       ELSE TRUE

NextFetchStartOverlapping(latestCached) == latestCached

\* "1 minute after to avoid overlap"
NextFetchStart(latestCached) == latestCached + 60000

\* the later candles are appended and saved
GetDataLater(a, save_cache, outcome, response) ==
    IF outcome # "error" /\ Len(response) > 0
    THEN Saved([a EXCEPT !.candles1m = @ \o response], save_cache, response)
    ELSE a

GetDataLate(a, endMs, end_time, latestCached, save_cache, outcome, clock) ==
    IF LateFetchNeeded(endMs, end_time, latestCached)
    THEN GetDataLater(
           Requested(a, "late", "historical", NextFetchStart(latestCached), endMs),
           save_cache, outcome,
           fetchHistorical1mCandles(NextFetchStart(latestCached), endMs, outcome,
                                    clock))
    ELSE a

\* "Cached data exists, fill in gaps"
GetDataGaps(a, startMs, endMs, end_time, save_cache, o, clock) ==
    [GetDataLate(
        GetDataEarly(a, startMs, SetMin(Timestamps(a.candles1m)), save_cache,
                     o.historical, clock),
        endMs, end_time, SetMax(Timestamps(a.candles1m)), save_cache, o.later,
        clock)
     EXCEPT !.candles1m = SortByTimestamp(@)]

\* the latest 1-minute bar held, or startMs
LatestOr(candles1m, startMs) ==
    IF Len(candles1m) > 0 THEN SetMax(Timestamps(candles1m)) ELSE startMs

\* "Check if live data is needed for initial dataset"
\* (skipped by the "continue" of a failed fetch)
GetDataTail(a, startMs, endMs, end_time, save_cache, outcome, clock) ==
    IF a.failed THEN a
    ELSE IF end_time = "current" \/ endMs > LatestOr(a.candles1m, startMs)
    THEN [GetDataLater(
             Requested(a, "tail", "live",
                NextFetchStart(LatestOr(a.candles1m, startMs)), endMs),
             save_cache, outcome,
             fetchLive1mCandles(NextFetchStart(LatestOr(a.candles1m, startMs)),
                                endMs, outcome, clock))
          EXCEPT !.candles1m = SortByTimestamp(@)]
    ELSE a

\* the acquisition of one symbol, a.candles1m what was read from the cache
GetDataAcquire(a, startMs, endMs, end_time, save_cache, o, clock) ==
    GetDataTail(
      IF Len(a.candles1m) = 0
      THEN GetDataFull(Requested(a, "full", "historical", startMs, endMs),
             save_cache, o.historical,
             fetchHistorical1mCandles(startMs, endMs, o.historical, clock))
      ELSE GetDataGaps(a, startMs, endMs, end_time, save_cache, o, clock),
      startMs, endMs, end_time, save_cache, o.live, clock)

----------------------------------------------------------------------------
(* settings-handlers.js: handleGetData                                      *)

\* ws.outputFunc applied to each candle
Messages(instrument, candles) ==
    [i \in 1..Len(candles) |-> DataMessage(instrument, candles[i])]

\* the candle of a bucket no trade has reached
NullCandle(timestamp, timeframe) ==
    [timestamp |-> timestamp, open |-> NULL, high |-> NULL, low |-> NULL,
     close |-> NULL, volume |-> 0, timeframe |-> timeframe, source |-> "T",
     isClosed |-> FALSE]

\* Map.prototype.set on a Map of open candles keyed by timeframe, kept in
\* insertion order
MapSet(map, candle) ==
    IF \E i \in 1..Len(map) : map[i].timeframe = candle.timeframe
    THEN [i \in 1..Len(map) |->
            IF map[i].timeframe = candle.timeframe THEN candle ELSE map[i]]
    ELSE Append(map, candle)

Served(instrument, st, r) ==
    [out |-> st.out \o Messages(instrument, r.result), cache |-> r.cache]

\* "Serve each requested timeframe"
RECURSIVE ServeTimeframes(_, _, _, _, _, _)
ServeTimeframes(instrument, timeframes, startMs, endMs, candles1m, st) ==
    IF timeframes = <<>> THEN st
    ELSE ServeTimeframes(instrument, Tail(timeframes), startMs, endMs,
           candles1m,
           Served(instrument, st,
              aggregateCandles(Head(timeframes), startMs, endMs, candles1m,
                               st.cache)))

\* the open candle of a timeframe: the last aggregated candle when it is
\* open, else an empty candle at currentStart, the aligned next1mStart
OpenCandleChosen(timeframe, r, currentStart) ==
    IF Len(r.result) > 0 /\ ~r.result[Len(r.result)].isClosed
    THEN [candle |-> [r.result[Len(r.result)] EXCEPT !.source = "T"],
          cache |-> r.cache]
    ELSE [candle |-> NullCandle(currentStart.value, timeframe),
          cache |-> currentStart.cache]

OpenCandleOf(timeframe, next1mStart, r) ==
    OpenCandleChosen(timeframe, r, AlignedStart(next1mStart, timeframe, r.cache))

OpenCandleSet(st, chosen) ==
    [open |-> MapSet(st.open, chosen.candle), cache |-> chosen.cache]

\* "Initialize open candles for live data if needed", the loop
RECURSIVE OpenCandlesInit(_, _, _, _, _, _)
OpenCandlesInit(timeframes, startMs, endMs, candles1m, next1mStart, st) ==
    IF timeframes = <<>> THEN st
    ELSE OpenCandlesInit(Tail(timeframes), startMs, endMs, candles1m,
           next1mStart,
           OpenCandleSet(st,
              OpenCandleOf(Head(timeframes), next1mStart,
                 aggregateCandles(Head(timeframes), startMs, endMs, candles1m,
                                  st.cache))))

\* next1mStart of a symbol
Next1mStart(candles1m, clock) ==
    IF Len(candles1m) > 0 THEN candles1m[Len(candles1m)].timestamp + 60000
    ELSE (clock \div 60000) * 60000

\* the session after the symbol was served: opens is the Map of its open
\* candles and the session cache
GetDataSession(symbol, live_data, next1mStart, out, opens) ==
    /\ liveOut' = out
    /\ sessionBoundaryCache' = opens.cache
    /\ IF live_data # "none"
       THEN /\ open1mCandles' = WithEntry(open1mCandles, symbol,
                                          NullCandle(next1mStart, "1m"))
            /\ openCandles' = WithEntry(openCandles, symbol, opens.open)
            /\ next1mStarts' = WithEntry(<<>>, symbol, next1mStart)
       ELSE UNCHANGED <<open1mCandles, openCandles, next1mStarts>>

GetDataServed(symbol, timeframes, startMs, endMs, live_data, candles1m, served) ==
    GetDataSession(symbol, live_data, Next1mStart(candles1m, now), served.out,
       IF live_data # "none"
       THEN OpenCandlesInit(timeframes, startMs, endMs, candles1m,
              Next1mStart(candles1m, now),
              [open |-> <<>>, cache |-> served.cache])
       ELSE [open |-> <<>>, cache |-> served.cache])

\* "Start live trades subscription if live_data is not none"
GetDataSubscribe(live_data) ==
    IF live_data # "none"
    THEN /\ isLiveActive' = TRUE
         /\ sockets' = WithEntry(sockets, socketsOpened + 1, "trades")
         /\ socketsOpened' = socketsOpened + 1
         /\ liveClient' = socketsOpened + 1
         /\ subscriptions' = WithEntry(subscriptions, socketsOpened + 1,
                                       live_data)
    ELSE UNCHANGED <<isLiveActive, sockets, socketsOpened, liveClient,
                     subscriptions>>

\* the handler from the acquisition a of the symbol on
GetDataAcquired(symbol, timeframes, startMs, endMs, live_data, a) ==
    /\ candlesTable' = WithEntry(candlesTable, symbol, a.rows)
    /\ offered' = offered \cup a.offered
    /\ fetchLog' = a.fetches
    /\ acqSeries' = a.candles1m
    /\ IF a.failed
       THEN /\ next1mStarts' = IF live_data # "none" THEN <<>> ELSE next1mStarts
            /\ UNCHANGED <<liveOut, sessionBoundaryCache, open1mCandles,
                           openCandles>>
       ELSE GetDataServed(symbol, timeframes, startMs, endMs, live_data,
              a.candles1m,
              ServeTimeframes(symbol, timeframes, startMs, endMs, a.candles1m,
                 [out |-> liveOut, cache |-> sessionBoundaryCache]))
    /\ GetDataSubscribe(live_data)

\* the handler from the cache read on
GetDataCached(symbol, timeframes, startMs, endMs, end_time, live_data, use_cache, save_cache, o, cached) ==
    /\ acqCached' = cached
    /\ acqRequest' = [startMs |-> startMs, endMs |-> endMs,
                      end_time |-> end_time, use_cache |-> use_cache,
                      save_cache |-> save_cache, live_data |-> live_data,
                      db |-> o.db]
    /\ GetDataAcquired(symbol, timeframes, startMs, endMs, live_data,
          GetDataAcquire([candles1m |-> cached,
                          rows |-> RowsOf(candlesTable, symbol),
                          fetches |-> <<>>, offered |-> {}, failed |-> FALSE,
                          db |-> o.db],
             startMs, endMs, end_time, save_cache, o, now))

\* a get_data request for one instrument; end_time is "undefined", "current"
\* or "explicit", and then end_ms is the time it names
handleGetData(symbol, timeframes, start_time, end_time, end_ms, live_data, use_cache, save_cache, o) ==
    /\ getDataRequests' = getDataRequests + 1
    /\ activeSubscriptions' = WithEntry(<<>>, symbol, timeframes)
    /\ wsStartMs' = start_time
    /\ wsEndMs' = IF end_time = "explicit" THEN end_ms ELSE now
    /\ GetDataCached(symbol, timeframes, start_time,
          IF end_time = "explicit" THEN end_ms ELSE now,
          end_time, live_data, use_cache, save_cache, o,
          IF use_cache /\ o.db # "read error"
          THEN getCached1mCandles(RowsOf(candlesTable, symbol), start_time,
                  IF end_time = "explicit" THEN end_ms ELSE now)
          ELSE <<>>)
    /\ UNCHANGED <<now, isProcessingTimeframeChange, tradeQueue, handlers,
                   addRequests, tradesSent, applied, queuedEver, liveTimers,
                   wsOpen, fetch, aggVars, replayVars>>

----------------------------------------------------------------------------
(* Acquisition: the requests of the model (SpecAcq)                         *)
(* One get_data request without live data, at 03:02:00, against a cache     *)
(* that holds any of the bars of 00:01, 00:02, 03:00 and 03:01.             *)

AcqTables ==
    {[i \in {"ES"} |-> [t \in S |-> MarketShape(t)]] :
        S \in SUBSET ({FirstNow - LATE_CANDLE_CUSHION_MINUTES * MINUTE
                          - k * MINUTE : k \in 0..1}
                      \cup {LiveBase, LiveBase + MINUTE})}

AcqInit ==
    /\ sessionBoundaryCache = <<>>
    /\ AggIdle
    /\ ReplayIdle
    /\ WsIdle
    /\ now = FirstNow
    /\ candlesTable \in AcqTables

\* a get_data request with live_data "none"; start_time: three days before
\* 00:02, three days before 00:01, or 00:00; end_time: absent, "current", or
\* the time 03:01, 03:02 or 00:02; the database works, or fails to read, or
\* fails to write, in a request the vendor answers in full
GetDataHistory ==
    \E start_time \in
          {FirstNow - LATE_CANDLE_CUSHION_MINUTES * MINUTE
              - EARLY_CANDLE_CUSHION_MINUTES * MINUTE - k * MINUTE : k \in 0..1}
          \cup {FirstNow - LATE_CANDLE_CUSHION_MINUTES * MINUTE - 2 * MINUTE},
       end \in
          {<<"undefined", NULL>>, <<"current", NULL>>,
           <<"explicit", LiveBase + MINUTE>>, <<"explicit", FirstNow>>,
           <<"explicit", FirstNow - LATE_CANDLE_CUSHION_MINUTES * MINUTE>>},
       use_cache \in BOOLEAN, save_cache \in BOOLEAN,
       o \in {x \in [historical : HistoricalOutcomes, later : HistoricalOutcomes,
                     live : Outcomes, db : {"ok", "read error", "write error"}] :
                 x.db # "ok" => x.historical = "all" /\ x.later = "all" /\ x.live = "all"} :
       /\ getDataRequests = 0
       /\ handleGetData("ES", <<"1m", "5m">>, start_time, end[1], end[2],
                        "none", use_cache, save_cache, o)

SpecAcq == AcqInit /\ [][GetDataHistory]_vars

----------------------------------------------------------------------------
(* settings-handlers.js: processTradeForClient                              *)

\* "x || y" for a price: null is falsy, a price is not
Or(x, y) == IF x = NULL THEN y ELSE x

\* "Update current open candle" with a trade
FoldTrade(candle, trade) ==
    [candle EXCEPT !.open = Or(@, trade.price),
                   !.high = Max(Or(@, trade.price), trade.price),
                   !.low = Min(Or(@, trade.price), trade.price),
                   !.close = trade.price,
                   !.volume = @ + trade.size]

\* "Start new open candle" from a trade
CandleFromTrade(timestamp, trade, timeframe) ==
    [timestamp |-> timestamp, open |-> trade.price, high |-> trade.price,
     low |-> trade.price, close |-> trade.price, volume |-> trade.size,
     timeframe |-> timeframe, source |-> "T", isClosed |-> FALSE]

\* outputFunc(candle) "if subscribed"
Output(out, subscribed, instrument, candle) ==
    IF subscribed THEN Append(out, DataMessage(instrument, candle)) ELSE out

\* the rollover, were the closed candle cached only when 1m is subscribed
Rollover1mSubscribedOnly(u, instrument, trade, subscribed, closed) ==
    [open1m |-> CandleFromTrade((trade.timestamp \div 60000) * 60000, trade, "1m"),
     out |-> Output(Output(u.out, subscribed, instrument, closed), subscribed,
                instrument,
                CandleFromTrade((trade.timestamp \div 60000) * 60000, trade, "1m")),
     rows |-> IF subscribed THEN batchInsertCandles(u.rows, <<closed>>)
              ELSE u.rows,
     offered |-> u.offered \cup Offers(<<closed>>)]

\* the 1-minute candle rolls over: it is closed, sent, handed to
\* batchInsertCandles, and a new candle starts at the trade's minute
Rollover1m(u, instrument, trade, subscribed, closed) ==
    [open1m |-> CandleFromTrade((trade.timestamp \div 60000) * 60000, trade, "1m"),
     out |-> Output(Output(u.out, subscribed, instrument, closed), subscribed,
                instrument,
                CandleFromTrade((trade.timestamp \div 60000) * 60000, trade, "1m")),
     rows |-> batchInsertCandles(u.rows, <<closed>>),
     offered |-> u.offered \cup Offers(<<closed>>)]

\* "Update 1m open candle (always tracked for caching)"
Trade1m(u, instrument, trade, subscribed) ==
    IF trade.timestamp >= u.open1m.timestamp + 60000
    THEN Rollover1m(u, instrument, trade, subscribed,
                    [u.open1m EXCEPT !.isClosed = TRUE])
    ELSE [u EXCEPT !.open1m = FoldTrade(@, trade),
                   !.out = Output(@, subscribed, instrument,
                                  FoldTrade(u.open1m, trade))]

\* one entry of openCandlesForSymbol, newStart the aligned start of the
\* trade's bucket
TradeTimeframe(w, i, instrument, trade, intervalMs, newStart) ==
    IF trade.timestamp >= w.map[i].timestamp + intervalMs
    THEN [map |-> [w.map EXCEPT ![i] =
                     CandleFromTrade(newStart.value, trade, w.map[i].timeframe)],
          out |-> Output(Output(w.out, TRUE, instrument,
                            [w.map[i] EXCEPT !.isClosed = TRUE]),
                     TRUE, instrument,
                     CandleFromTrade(newStart.value, trade, w.map[i].timeframe)),
          cache |-> newStart.cache]
    ELSE [map |-> [w.map EXCEPT ![i] = FoldTrade(@, trade)],
          out |-> Output(w.out, TRUE, instrument, FoldTrade(w.map[i], trade)),
          cache |-> w.cache]

\* "Update open candles for requested timeframes (excluding 1m)"
RECURSIVE TradeTimeframes(_, _, _, _)
TradeTimeframes(w, i, instrument, trade) ==
    IF i > Len(w.map) THEN w
    ELSE IF w.map[i].timeframe = "1m"
    THEN TradeTimeframes(w, i + 1, instrument, trade)
    ELSE TradeTimeframes(
           TradeTimeframe(w, i, instrument, trade,
              parseTimeframeMs(w.map[i].timeframe),
              AlignedStart(trade.timestamp, w.map[i].timeframe, w.cache)),
           i + 1, instrument, trade)

\* the session after the candle update: u the 1-minute part, w the rest
TradeUpdated(instrument, trade, u, w) ==
    /\ applied' = Append(applied, trade.id)
    /\ open1mCandles' = WithEntry(open1mCandles, instrument, u.open1m)
    /\ candlesTable' = WithEntry(candlesTable, instrument, u.rows)
    /\ offered' = u.offered
    /\ openCandles' = IF instrument \in DOMAIN openCandles
                      THEN WithEntry(openCandles, instrument, w.map)
                      ELSE openCandles
    /\ liveOut' = w.out
    /\ sessionBoundaryCache' = w.cache

TradeAfter1m(instrument, trade, u) ==
    TradeUpdated(instrument, trade, u,
       IF instrument \in DOMAIN openCandles
       THEN TradeTimeframes([map |-> openCandles[instrument], out |-> u.out,
                             cache |-> sessionBoundaryCache],
                            1, instrument, trade)
       ELSE [map |-> <<>>, out |-> u.out, cache |-> sessionBoundaryCache])

\* the guards of processTradeForClient that let a trade through to the
\* candle update
TradeReachesUpdate(trade) ==
    /\ trade.instrument \in DOMAIN activeSubscriptions
    /\ ~(/\ trade.instrument \in DOMAIN next1mStarts
         /\ trade.timestamp < next1mStarts[trade.instrument])
    /\ trade.instrument \in DOMAIN open1mCandles

\* the callback of the live trades subscription
processTradeForClient(trade) ==
    IF ~isLiveActive
    THEN UNCHANGED <<tradeQueue, queuedEver, applied, open1mCandles,
                     candlesTable, offered, openCandles, liveOut,
                     sessionBoundaryCache>>
    ELSE IF isProcessingTimeframeChange
    THEN /\ tradeQueue' = Append(tradeQueue, trade)
         /\ queuedEver' = queuedEver \cup {trade.id}
         /\ UNCHANGED <<applied, open1mCandles, candlesTable, offered,
                        openCandles, liveOut, sessionBoundaryCache>>
    ELSE IF ~TradeReachesUpdate(trade)
    THEN UNCHANGED <<tradeQueue, queuedEver, applied, open1mCandles,
                     candlesTable, offered, openCandles, liveOut,
                     sessionBoundaryCache>>
    ELSE /\ TradeAfter1m(trade.instrument, trade,
              Trade1m([open1m |-> open1mCandles[trade.instrument],
                       out |-> liveOut,
                       rows |-> RowsOf(candlesTable, trade.instrument),
                       offered |-> offered],
                      trade.instrument, trade,
                      "1m" \in Range(activeSubscriptions[trade.instrument])))
         /\ UNCHANGED <<tradeQueue, queuedEver>>

\* number of trades the vendor delivers
MaxTrades == 2

\* the trade stream of an open subscription delivers a trade, stamped with
\* the time it happens
Trade ==
    /\ \E id \in DOMAIN sockets : sockets[id] = "trades"
    /\ tradesSent < MaxTrades
    /\ tradesSent' = tradesSent + 1
    /\ processTradeForClient([id |-> tradesSent + 1, timestamp |-> now,
                              price |-> 100 + tradesSent + 1, size |-> 1,
                              instrument |-> "ES"])
    /\ UNCHANGED <<now, activeSubscriptions, wsStartMs, wsEndMs, isLiveActive,
                   isProcessingTimeframeChange, liveClient, next1mStarts,
                   sockets, socketsOpened, handlers, addRequests, acqVars,
                   sessionVars, aggVars, replayVars>>

\* number of minutes the clock advances
MaxClockSteps == 1

\* the time of the live request, 03:04:00
LiveNow == FirstNow + 2 * MINUTE

\* a minute passes
AdvanceClock ==
    /\ now < LiveNow + MaxClockSteps * MINUTE
    /\ now' = now + MINUTE
    /\ UNCHANGED <<sessionBoundaryCache, candlesTable, wsVars, sockets,
                   socketsOpened, handlers, addRequests, tradesSent, liveOut,
                   applied, queuedEver, offered, acqVars, sessionVars, aggVars, replayVars>>

----------------------------------------------------------------------------
(* settings-handlers.js: handleAddTimeframe                                 *)
(* The handler runs between its awaits; a call in progress is an entry of   *)
(* handlers: its request, its endMs, the await it is at (pc), its candles1m *)
(* and latestCached, and the socket of its fetchLive1mCandles.              *)

Without(map, key) == [k \in DOMAIN map \ {key} |-> map[k]]

\* -Infinity and Infinity as prices
NegativeInfinity == -2147483647
Infinity == 2147483647

\* "Include open 1m candle if it falls within this interval"
IncludeOpen1m(liveCandle, open1mCandle, intervalMs) ==
    IF /\ open1mCandle.timestamp >= liveCandle.timestamp
       /\ open1mCandle.timestamp < liveCandle.timestamp + intervalMs
    THEN [liveCandle EXCEPT
            !.open = IF @ = NULL /\ open1mCandle.open # NULL
                     THEN open1mCandle.open ELSE @,
            !.high = Max(Or(Or(@, open1mCandle.high), NegativeInfinity),
                         Or(open1mCandle.high, NegativeInfinity)),
            !.low = Min(Or(Or(@, open1mCandle.low), Infinity),
                        Or(open1mCandle.low, Infinity)),
            !.close = Or(open1mCandle.close, @),
            !.volume = @ + open1mCandle.volume]
    ELSE liveCandle

\* "Initialize live candle": the last aggregated candle when it is open and
\* its bucket is not over at currentTime, else an empty candle at
\* currentStart, the aligned currentTime
LiveCandleChosen(timeframe, r, currentTime, currentStart) ==
    IF /\ Len(r.result) > 0
       /\ ~r.result[Len(r.result)].isClosed
       /\ currentTime < r.result[Len(r.result)].timestamp
                           + parseTimeframeMs(timeframe)
    THEN [candle |-> [r.result[Len(r.result)] EXCEPT !.source = "T"],
          cache |-> r.cache]
    ELSE [candle |-> NullCandle(currentStart.value, timeframe),
          cache |-> currentStart.cache]

\* the live candle is installed, the flag reset, and the drain of the queue
\* takes the first queued trade and stops at the call of
\* processTradeForClient, a name this function does not have
AddTimeframeLiveCandle(h, chosen) ==
    /\ sessionBoundaryCache' = chosen.cache
    /\ openCandles' =
         WithEntry(openCandles, h.instrument,
            MapSet(openCandles[h.instrument],
               IncludeOpen1m(chosen.candle, open1mCandles[h.instrument],
                             parseTimeframeMs(h.timeframe))))
    /\ isProcessingTimeframeChange' = FALSE
    /\ tradeQueue' = IF Len(tradeQueue) > 0 THEN Tail(tradeQueue)
                     ELSE tradeQueue

\* the handler from its aggregation r on; a session whose get_data left no
\* open candles ends at ws.openCandles.get
AddTimeframeAggregated(id, h, rows, off, socks, r) ==
    /\ liveOut' = liveOut \o Messages(h.instrument, r.result)
    /\ candlesTable' = WithEntry(candlesTable, h.instrument, rows)
    /\ offered' = off
    /\ sockets' = socks
    /\ handlers' = Without(handlers, id)
    /\ IF h.instrument \in DOMAIN openCandles
       THEN AddTimeframeLiveCandle(h,
              LiveCandleChosen(h.timeframe, r, now,
                 AlignedStart(now, h.timeframe, r.cache)))
       ELSE /\ sessionBoundaryCache' = r.cache
            /\ UNCHANGED <<openCandles, isProcessingTimeframeChange,
                           tradeQueue>>
    /\ UNCHANGED <<now, activeSubscriptions, wsStartMs, wsEndMs, isLiveActive,
                   open1mCandles, liveClient, next1mStarts, socketsOpened,
                   addRequests, tradesSent, applied, queuedEver, acqVars,
                   sessionVars, aggVars, replayVars>>

\* "Aggregate and send historical candles" and what follows
AddTimeframeFinish(id, h, candles1m, rows, off, socks) ==
    AddTimeframeAggregated(id, h, rows, off, socks,
       aggregateCandles(h.timeframe, wsStartMs, h.endMs, candles1m,
                        sessionBoundaryCache))

\* "Set flag before fetching live candles": the flag, the socket of
\* fetchLive1mCandles and updateLiveClientRef
AddTimeframeLiveStart(id, h, rows, off) ==
    /\ isProcessingTimeframeChange' = TRUE
    /\ sockets' = WithEntry(sockets, socketsOpened + 1, "bars")
    /\ socketsOpened' = socketsOpened + 1
    /\ liveClient' = IF liveClient # NULL THEN socketsOpened + 1 ELSE liveClient
    /\ handlers' = [handlers EXCEPT ![id] =
                      [h EXCEPT !.pc = "live", !.socket = socketsOpened + 1]]
    /\ candlesTable' = WithEntry(candlesTable, h.instrument, rows)
    /\ offered' = off
    /\ UNCHANGED <<now, sessionBoundaryCache, activeSubscriptions, wsStartMs,
                   wsEndMs, isLiveActive, tradeQueue, open1mCandles,
                   openCandles, next1mStarts, addRequests, tradesSent, liveOut,
                   applied, queuedEver, acqVars, sessionVars, aggVars, replayVars>>

\* "if (endMs > latestCached)"
AddTimeframeAfterEarly(id, h, rows, off) ==
    IF h.endMs > h.latestCached
    THEN AddTimeframeLiveStart(id, h, rows, off)
    ELSE AddTimeframeFinish(id, h, SortByTimestamp(h.candles1m), rows, off,
                            sockets)

\* the handler stays at an await, or returns without another effect: next
\* the calls in progress after it
AddTimeframeAwait(next) ==
    /\ handlers' = next
    /\ UNCHANGED <<now, sessionBoundaryCache, candlesTable, wsVars, sockets,
                   socketsOpened, addRequests, tradesSent, liveOut, applied,
                   queuedEver, offered, acqVars, sessionVars, aggVars, replayVars>>

\* the handler from the cache read on
AddTimeframeCached(id, h, cached) ==
    IF Len(cached) = 0
    THEN AddTimeframeAwait([handlers EXCEPT ![id].pc = "historical"])
    ELSE IF wsStartMs < SetMin(Timestamps(cached))
    THEN AddTimeframeAwait(
            [handlers EXCEPT ![id] =
               [h EXCEPT !.pc = "early", !.candles1m = cached,
                         !.latestCached = SetMax(Timestamps(cached))]])
    ELSE AddTimeframeAfterEarly(id,
            [h EXCEPT !.candles1m = cached,
                      !.latestCached = SetMax(Timestamps(cached))],
            RowsOf(candlesTable, h.instrument), offered)

\* the awaits of getSettings and getCached1mCandles are over
AddTimeframeCache(id) ==
    /\ handlers[id].pc = "cache"
    /\ AddTimeframeCached(id, handlers[id],
          getCached1mCandles(RowsOf(candlesTable, handlers[id].instrument),
                             wsStartMs, handlers[id].endMs))

\* the whole range was fetched and is handed to batchInsertCandles
AddTimeframeFetched(id, h, candles1m) ==
    AddTimeframeFinish(id, h, candles1m,
       batchInsertCandles(RowsOf(candlesTable, h.instrument), candles1m),
       offered \cup Offers(candles1m), sockets)

\* the cache had no bar: the awaits of fetchHistorical1mCandles and
\* batchInsertCandles are over
AddTimeframeHistorical(id, outcome) ==
    /\ handlers[id].pc = "historical"
    /\ IF outcome = "error" THEN AddTimeframeAwait(Without(handlers, id))
       ELSE AddTimeframeFetched(id, handlers[id],
               fetchHistorical1mCandles(wsStartMs, handlers[id].endMs,
                                        outcome, now))

AddTimeframeEarlier(id, h, earlierCandles) ==
    IF Len(earlierCandles) > 0
    THEN AddTimeframeAfterEarly(id,
            [h EXCEPT !.candles1m = earlierCandles \o @],
            batchInsertCandles(RowsOf(candlesTable, h.instrument),
                               earlierCandles),
            offered \cup Offers(earlierCandles))
    ELSE AddTimeframeAfterEarly(id, h, RowsOf(candlesTable, h.instrument),
                                offered)

\* the awaits of the earlier fetch are over; an error is logged
AddTimeframeEarly(id, outcome) ==
    /\ handlers[id].pc = "early"
    /\ AddTimeframeEarlier(id, handlers[id],
          fetchHistorical1mCandles(wsStartMs,
             SetMin(Timestamps(handlers[id].candles1m)) - 60000, outcome, now))

AddTimeframeLater(id, h, laterCandles) ==
    IF Len(laterCandles) > 0
    THEN AddTimeframeFinish(id, h, SortByTimestamp(h.candles1m \o laterCandles),
            batchInsertCandles(RowsOf(candlesTable, h.instrument), laterCandles),
            offered \cup Offers(laterCandles), Without(sockets, h.socket))
    ELSE AddTimeframeFinish(id, h, SortByTimestamp(h.candles1m),
            RowsOf(candlesTable, h.instrument), offered,
            Without(sockets, h.socket))

\* the awaits of fetchLive1mCandles and batchInsertCandles are over; its
\* socket is gone; an error is logged
AddTimeframeLive(id, outcome) ==
    /\ handlers[id].pc = "live"
    /\ AddTimeframeLater(id, handlers[id],
          fetchLive1mCandles(handlers[id].latestCached + 60000,
                             handlers[id].endMs, outcome, now))

\* an add_timeframe request up to its first await
handleAddTimeframe(instrument, timeframe) ==
    IF \/ ~isLiveActive
       \/ instrument \notin DOMAIN activeSubscriptions
       \/ timeframe \in Range(activeSubscriptions[instrument])
    THEN UNCHANGED vars
    ELSE /\ activeSubscriptions' =
              [activeSubscriptions EXCEPT ![instrument] = Append(@, timeframe)]
         /\ addRequests' = addRequests + 1
         /\ handlers' = WithEntry(handlers, addRequests + 1,
                           [instrument |-> instrument, timeframe |-> timeframe,
                            endMs |-> now, pc |-> "cache", candles1m |-> <<>>,
                            latestCached |-> NULL, socket |-> NULL])
         /\ UNCHANGED <<now, sessionBoundaryCache, candlesTable, wsStartMs,
                        wsEndMs, isLiveActive, isProcessingTimeframeChange,
                        tradeQueue, open1mCandles, openCandles, liveClient,
                        next1mStarts, sockets, socketsOpened, tradesSent,
                        liveOut, applied, queuedEver, offered, acqVars,
                        sessionVars, aggVars, replayVars>>

----------------------------------------------------------------------------
(* settings-handlers.js: handleRemoveTimeframe                              *)

\* handleRemoveTimeframe, were it to drop the 1-minute tracking of the
\* instrument as well
handleRemoveTimeframeAll(instrument, timeframe) ==
    IF \/ ~isLiveActive
       \/ instrument \notin DOMAIN activeSubscriptions
       \/ timeframe \notin Range(activeSubscriptions[instrument])
    THEN UNCHANGED vars
    ELSE /\ activeSubscriptions' =
              [activeSubscriptions EXCEPT ![instrument] =
                 LET index == CHOOSE i \in 1..Len(@) :
                                 /\ @[i] = timeframe
                                 /\ \A j \in 1..(i - 1) : @[j] # timeframe
                 IN  SubSeq(@, 1, index - 1) \o SubSeq(@, index + 1, Len(@))]
         /\ openCandles' =
              IF instrument \in DOMAIN openCandles
              THEN [openCandles EXCEPT ![instrument] =
                      SelectSeq(@, LAMBDA c : c.timeframe # timeframe)]
              ELSE openCandles
         /\ open1mCandles' = Without(open1mCandles, instrument)
         /\ UNCHANGED <<now, sessionBoundaryCache, candlesTable, wsStartMs,
                        wsEndMs, isLiveActive, isProcessingTimeframeChange,
                        tradeQueue, liveClient, next1mStarts,
                        sockets, socketsOpened, handlers, addRequests,
                        tradesSent, liveOut, applied, queuedEver, offered,
                        acqVars, sessionVars, aggVars, replayVars>>

\* a remove_timeframe request: the timeframe leaves the subscriptions of the
\* instrument and its open candle is deleted; the acknowledgement is a ctrl
\* message, sent with ws.send
handleRemoveTimeframe(instrument, timeframe) ==
    IF \/ ~isLiveActive
       \/ instrument \notin DOMAIN activeSubscriptions
       \/ timeframe \notin Range(activeSubscriptions[instrument])
    THEN UNCHANGED vars
    ELSE /\ activeSubscriptions' =
              [activeSubscriptions EXCEPT ![instrument] =
                 LET index == CHOOSE i \in 1..Len(@) :
                                 /\ @[i] = timeframe
                                 /\ \A j \in 1..(i - 1) : @[j] # timeframe
                 IN  SubSeq(@, 1, index - 1) \o SubSeq(@, index + 1, Len(@))]
         /\ openCandles' =
              IF instrument \in DOMAIN openCandles
              THEN [openCandles EXCEPT ![instrument] =
                      SelectSeq(@, LAMBDA c : c.timeframe # timeframe)]
              ELSE openCandles
         /\ UNCHANGED <<now, sessionBoundaryCache, candlesTable, wsStartMs,
                        wsEndMs, isLiveActive, isProcessingTimeframeChange,
                        tradeQueue, open1mCandles, liveClient, next1mStarts,
                        sockets, socketsOpened, handlers, addRequests,
                        tradesSent, liveOut, applied, queuedEver, offered,
                        acqVars, sessionVars, aggVars, replayVars>>

----------------------------------------------------------------------------
(* The live session of one connection                                       *)
(* A get_data request with live data at 03:04:00 for the bars from 03:00   *)
(* on, then trades, add_timeframe requests and the passing of minutes.     *)

\* number of add_timeframe requests
MaxAddTimeframes == 2

\* the cache at the start: empty, or with the bar of 03:01
LiveInit ==
    /\ sessionBoundaryCache = <<>>
    /\ AggIdle
    /\ ReplayIdle
    /\ WsIdle
    /\ now = LiveNow
    /\ candlesTable \in {[i \in {"ES"} |-> [t \in S |-> MarketShape(t)]] :
                            S \in {{}, {LiveBase + MINUTE}}}

\* a get_data request with end_time "current" and live_data "all"; the
\* vendor serves the history in full, or fails
GetDataLive ==
    \E save_cache \in BOOLEAN,
       o \in [historical : {"all", "error"}, later : {"all"}, live : {"all"},
             db : {"ok"}] :
       /\ getDataRequests = 0
       /\ handleGetData("ES", <<"5m">>, LiveBase, "current", NULL, "all",
                        TRUE, save_cache, o)

AddTimeframe ==
    \E timeframe \in {"1m", "5m", "4h"} :
       /\ addRequests < MaxAddTimeframes
       /\ handleAddTimeframe("ES", timeframe)

AddTimeframeStep ==
    \E id \in DOMAIN handlers :
       \/ AddTimeframeCache(id)
       \/ \E outcome \in Outcomes : AddTimeframeHistorical(id, outcome)
       \/ \E outcome \in Outcomes : AddTimeframeEarly(id, outcome)
       \/ \E outcome \in Outcomes : AddTimeframeLive(id, outcome)

Next ==
    \/ GetDataLive
    \/ Trade
    \/ AdvanceClock
    \/ AddTimeframe
    \/ AddTimeframeStep

Spec == LiveInit /\ [][Next]_vars

\* the live session with remove_timeframe requests and one add_timeframe
SpecRemove ==
    LiveInit /\ [][\/ GetDataLive
                   \/ Trade
                   \/ AdvanceClock
                   \/ addRequests = 0 /\ AddTimeframe
                   \/ AddTimeframeStep
                   \/ \E timeframe \in {"5m", "4h"} :
                         handleRemoveTimeframe("ES", timeframe)]_vars

\* the live session over a day: hours without a trade pass, to 19:30 and to
\* 23:30 UTC (after the session start of 18:00 ET), while no add_timeframe
\* is in progress (its awaits end within seconds), and a 5h timeframe is
\* added at 19:30
SpecDay ==
    LiveInit /\ [][\/ GetDataLive
                   \/ Trade
                   \/ \E t \in {LiveBase + 16 * HOUR + 30 * MINUTE,
                                LiveBase + 20 * HOUR + 30 * MINUTE} :
                         /\ now < t
                         /\ handlers = <<>>
                         /\ now' = t
                         /\ UNCHANGED <<sessionBoundaryCache, candlesTable,
                                        wsVars, sockets, socketsOpened,
                                        handlers, addRequests, tradesSent,
                                        liveOut, applied, queuedEver, offered,
                                        acqVars, sessionVars, aggVars,
                                        replayVars>>
                   \/ /\ addRequests = 0
                      /\ now = LiveBase + 16 * HOUR + 30 * MINUTE
                      /\ handleAddTimeframe("ES", "5h")
                   \/ AddTimeframeStep]_vars

\* the live session with trades out of order: the vendor also delivers, at
\* a price of 90, a trade stamped a minute ago when the open 1-minute candle
\* of the instrument is of a later minute than that
SpecLate ==
    LiveInit /\ [][\/ GetDataLive
                   \/ Trade
                   \/ AdvanceClock
                   \/ /\ \E id \in DOMAIN sockets : sockets[id] = "trades"
                      /\ tradesSent < MaxTrades
                      /\ "ES" \in DOMAIN open1mCandles
                      /\ now - MINUTE < open1mCandles["ES"].timestamp
                      /\ tradesSent' = tradesSent + 1
                      /\ processTradeForClient(
                            [id |-> tradesSent + 1, timestamp |-> now - MINUTE,
                             price |-> 90, size |-> 1, instrument |-> "ES"])
                      /\ UNCHANGED <<now, activeSubscriptions, wsStartMs,
                                     wsEndMs, isLiveActive,
                                     isProcessingTimeframeChange, liveClient,
                                     next1mStarts, sockets, socketsOpened,
                                     handlers, addRequests, acqVars,
                                     sessionVars, aggVars, replayVars>>]_vars

----------------------------------------------------------------------------
(* data-fetcher.js: the three upstream calls, answer by answer.  fetch is  *)
(* the call in progress: fn the function, retryCount its retryCount (its   *)
(* attempt, for fetchHistorical1mCandles), attempts the connections or     *)
(* requests made, open the sockets that are open, isHandlingError the flag *)
(* of the current socket, status and result the promise of the caller, and *)
(* answers what the vendor has said so far.                                *)

\* number of answers of the vendor to one call
MaxAnswers == 5

\* resolve and reject: a promise settles once
Settle(f, status, result) ==
    IF f.status = "pending"
    THEN [f EXCEPT !.status = status, !.result = result]
    ELSE f

\* fetchLive1mCandles up to liveClient.connect, with retryCount + 1 and the
\* start of the vendor's message when it is the retry; a throw rejects the
\* promise of the first call through .catch(reject)
LiveFetchCallFive(f, startMs, retryCount) ==
    IF retryCount > 4
    THEN Settle(f, "rejected", "error")
    ELSE [f EXCEPT !.startMs = startMs, !.retryCount = retryCount,
                   !.attempts = @ + 1, !.open = @ + 1,
                   !.isHandlingError = FALSE]

LiveFetchCall(f, startMs, retryCount) ==
    IF retryCount > 3
    THEN Settle(f, "rejected", "error")
    ELSE [f EXCEPT !.startMs = startMs, !.retryCount = retryCount,
                   !.attempts = @ + 1, !.open = @ + 1,
                   !.isHandlingError = FALSE]

\* startLiveTradesSubscription up to liveClient.connect
TradesCall(f, startMs, retryCount) ==
    IF retryCount > 3
    THEN Settle(f, "rejected", "error")
    ELSE [f EXCEPT !.startMs = startMs, !.retryCount = retryCount,
                   !.attempts = @ + 1, !.open = @ + 1,
                   !.isHandlingError = FALSE]

\* the call after an answer: f with the answer logged
FetchStep(f, answer) ==
    /\ Len(fetch.answers) < MaxAnswers
    /\ fetch' = [f EXCEPT !.answers = Append(@, answer)]
    /\ UNCHANGED <<sessionBoundaryCache, aggVars, replayVars, now,
                   candlesTable, wsVars, sockets, socketsOpened, handlers,
                   addRequests, tradesSent, liveOut, applied, queuedEver,
                   offered, fetchLog, acqRequest, acqCached, acqSeries,
                   getDataRequests, sessionVars>>

\* a call of one of the three functions by a handler
FetchCall ==
    \E fn \in {"live", "trades", "historical"} :
       /\ fetch.fn = "idle"
       /\ FetchStep(
            IF fn = "live"
            THEN LiveFetchCall([fetch EXCEPT !.fn = fn, !.status = "pending",
                                             !.endMs = LiveNow], LiveBase, 0)
            ELSE IF fn = "trades"
            THEN TradesCall([fetch EXCEPT !.fn = fn, !.status = "pending"],
                            LiveBase, 0)
            ELSE [fetch EXCEPT !.fn = fn, !.status = "pending",
                               !.startMs = LiveBase, !.endMs = LiveNow,
                               !.attempts = 1],
            [kind |-> "call", x |-> NULL])

\* what a subscribed socket of fetchLive1mCandles receives: the error record
\* "Invalid start time. Must be x or later", the same without a time that
\* the pattern matches, the 500 ms without a bar, an error, the close
LiveFetchAnswer ==
    \E kind \in {"invalid", "unparsed", "inactivity", "error", "close"},
       x \in {LiveBase + MINUTE, LiveBase + 2 * MINUTE} :
       /\ fetch.fn = "live"
       /\ fetch.open > 0
       /\ kind = "invalid" \/ x = LiveBase + MINUTE
       /\ FetchStep(
            IF kind = "invalid"
            THEN LiveFetchCall([fetch EXCEPT !.open = @ - 1,
                                             !.isHandlingError = TRUE],
                               x, fetch.retryCount + 1)
            ELSE IF kind = "unparsed"
            THEN Settle(fetch, "rejected", "error")
            ELSE IF kind = "error"
            THEN Settle([fetch EXCEPT !.open = @ - 1], "rejected", "error")
            ELSE Settle([fetch EXCEPT !.open = @ - 1], "resolved", "candles"),
            [kind |-> kind, x |-> IF kind = "invalid" THEN x ELSE NULL])

\* what a subscribed socket of startLiveTradesSubscription receives; the
\* branch of the matching error record sets isHandlingError and then reads
\* inactivityTimer, which this function does not declare: the ReferenceError
\* is caught by the catch of the message, before destroy and before the
\* retry, and from then on data, error and close are ignored
TradesAnswer ==
    \E kind \in {"invalid", "unparsed", "trade", "error", "close"},
       x \in {LiveBase + MINUTE, LiveBase + 2 * MINUTE} :
       /\ fetch.fn = "trades"
       /\ fetch.open > 0
       /\ kind = "invalid" \/ x = LiveBase + MINUTE
       /\ FetchStep(
            IF kind \in {"error", "close"}
            THEN IF fetch.isHandlingError
                 THEN [fetch EXCEPT !.open = @ - 1]
                 ELSE Settle([fetch EXCEPT !.open = @ - 1],
                        IF kind = "error" THEN "rejected" ELSE "resolved",
                        IF kind = "error" THEN "error" ELSE "client")
            ELSE IF fetch.isHandlingError \/ kind = "trade"
            THEN fetch
            ELSE IF kind = "invalid"
            THEN [fetch EXCEPT !.isHandlingError = TRUE]
            ELSE Settle(fetch, "rejected", "error"),
            [kind |-> kind, x |-> IF kind = "invalid" THEN x ELSE NULL])

\* the answer to a request of fetchHistorical1mCandles: lines of bars, an
\* empty body, 422 with available_end = x, 422 without it, another failure
HistoricalAnswerAlways ==
    \E kind \in {"candles", "empty", "unprocessable", "bare", "error"},
       x \in {LiveBase + MINUTE, LiveBase + 2 * MINUTE} :
       /\ fetch.fn = "historical"
       /\ fetch.status = "pending"
       /\ kind = "unprocessable" \/ x = LiveBase + MINUTE
       /\ FetchStep(
            IF kind = "candles"
            THEN Settle(fetch, "resolved", "candles")
            ELSE IF kind = "empty"
            THEN Settle(fetch, "resolved", "empty")
            ELSE IF kind = "unprocessable"
            THEN [fetch EXCEPT !.endMs = x, !.retryCount = @ + 1,
                               !.attempts = @ + 1]
            ELSE Settle(fetch, "rejected", "error"),
            [kind |-> kind, x |-> IF kind = "unprocessable" THEN x ELSE NULL])

HistoricalAnswer ==
    \E kind \in {"candles", "empty", "unprocessable", "bare", "error"},
       x \in {LiveBase + MINUTE, LiveBase + 2 * MINUTE} :
       /\ fetch.fn = "historical"
       /\ fetch.status = "pending"
       /\ kind = "unprocessable" \/ x = LiveBase + MINUTE
       /\ FetchStep(
            IF kind = "candles"
            THEN Settle(fetch, "resolved", "candles")
            ELSE IF kind = "empty"
            THEN Settle(fetch, "resolved", "empty")
            ELSE IF kind = "unprocessable" /\ fetch.retryCount = 0
            THEN [fetch EXCEPT !.endMs = x, !.retryCount = @ + 1,
                               !.attempts = @ + 1]
            ELSE Settle(fetch, "rejected", "error"),
            [kind |-> kind, x |-> IF kind = "unprocessable" THEN x ELSE NULL])

\* one call on a connection that has made no request
SpecFetch ==
    ReplayInit /\ [][FetchCall \/ LiveFetchAnswer \/ TradesAnswer \/ HistoricalAnswer]_vars

----------------------------------------------------------------------------
(* The session of one connection from its requests to its close: get_data  *)
(* with live_data "all" or a number of seconds, get_replay, add_timeframe, *)
(* stop_data, the end of the trade subscription, the live_data timeout and *)
(* the close of the client connection.                                     *)

\* number of get_data requests
MaxGetData == 2

\* stop_data
handleStopData ==
    /\ IF ~isLiveActive
       THEN UNCHANGED <<isLiveActive, sockets, liveClient>>
       ELSE /\ isLiveActive' = FALSE
            /\ sockets' = IF liveClient # NULL THEN Without(sockets, liveClient)
                          ELSE sockets
            /\ liveClient' = NULL
    /\ UNCHANGED <<sessionBoundaryCache, aggVars, replayVars, now,
                   candlesTable, activeSubscriptions, wsStartMs, wsEndMs,
                   isProcessingTimeframeChange, tradeQueue, open1mCandles,
                   openCandles, next1mStarts, socketsOpened, handlers,
                   addRequests, tradesSent, liveOut, applied, queuedEver,
                   offered, acqVars, sessionVars>>

\* handleGetData after "await startLiveTradesSubscription": the promise
\* resolves with the socket when the socket has closed, and only then the
\* timeout of a numeric live_data is scheduled
GetDataResume ==
    \E id \in DOMAIN subscriptions :
       /\ id \notin DOMAIN sockets
       /\ liveClient' = id
       /\ subscriptions' = Without(subscriptions, id)
       /\ liveTimers' = IF subscriptions[id] = "number"
                        THEN liveTimers \cup {id} ELSE liveTimers
       /\ UNCHANGED <<sessionBoundaryCache, aggVars, replayVars, now,
                      candlesTable, activeSubscriptions, wsStartMs, wsEndMs,
                      isLiveActive, isProcessingTimeframeChange, tradeQueue,
                      open1mCandles, openCandles, next1mStarts, sockets,
                      socketsOpened, handlers, addRequests, tradesSent,
                      liveOut, applied, queuedEver, offered, acqVars, wsOpen>>

\* the callback of setTimeout(..., live_data * 1000)
LiveDataTimeout ==
    \E id \in liveTimers :
       /\ liveTimers' = liveTimers \ {id}
       /\ IF liveClient # NULL
          THEN /\ sockets' = Without(sockets, liveClient)
               /\ liveClient' = NULL
               /\ isLiveActive' = FALSE
          ELSE UNCHANGED <<sockets, liveClient, isLiveActive>>
       /\ UNCHANGED <<sessionBoundaryCache, aggVars, replayVars, now,
                      candlesTable, activeSubscriptions, wsStartMs, wsEndMs,
                      isProcessingTimeframeChange, tradeQueue, open1mCandles,
                      openCandles, next1mStarts, socketsOpened, handlers,
                      addRequests, tradesSent, liveOut, applied, queuedEver,
                      offered, acqVars, subscriptions, wsOpen>>

\* ws.on('close'): the client has disconnected
OnClose ==
    /\ wsOpen
    /\ wsOpen' = FALSE
    /\ isLiveActive' = FALSE
    /\ sockets' = IF liveClient # NULL THEN Without(sockets, liveClient)
                  ELSE sockets
    /\ liveClient' = NULL
    /\ IF replayIsActive
       THEN /\ replayIsActive' = FALSE
            /\ timers' = ClearInterval(timers, replayInterval)
            /\ replayInterval' = NULL
       ELSE UNCHANGED <<replayIsActive, timers, replayInterval>>
    /\ UNCHANGED <<sessionBoundaryCache, aggVars, activeReplaySubscriptions,
                   replayData, replayIsPaused, replayIntervalMs,
                   replayCurrentTime, replayLiveEndMs, liveStartMs, replayOut,
                   replayRequests, now, candlesTable, activeSubscriptions,
                   wsStartMs, wsEndMs, isProcessingTimeframeChange, tradeQueue,
                   open1mCandles, openCandles, next1mStarts, socketsOpened,
                   handlers, addRequests, tradesSent, liveOut, applied,
                   queuedEver, offered, acqVars, subscriptions, liveTimers>>

\* the requests of the client, which arrive while its connection is open,
\* and the callbacks of the session, which run whenever they are due
SessionNext ==
    \/ /\ wsOpen
       /\ getDataRequests < MaxGetData
       /\ \E live_data \in {"all", "number", "none"} :
             handleGetData("ES", <<"5m">>, LiveBase, "current", NULL,
                live_data, TRUE, TRUE,
                [historical |-> "all", later |-> "all", live |-> "all",
                 db |-> "ok"])
    \/ /\ wsOpen
       /\ replayRequests = 0
       /\ handleGetReplay([i \in {"ES"} |-> <<"5m">>],
             [i \in {"ES"} |->
                ReplaySeriesOver({ReplaySlot(k) : k \in 0..(MaxReplaySlots - 1)})],
             ReplayBase, ReplaySlot(MaxReplaySlots - 2),
             ReplaySlot(MaxReplaySlots - 1), 1000)
    \/ /\ wsOpen
       /\ addRequests = 0
       /\ AddTimeframe
    \/ /\ wsOpen
       /\ handleStopData
    \/ AddTimeframeStep
    \/ /\ tradesSent = 0
       /\ Trade
    \/ Tick
    \/ GetDataResume
    \/ LiveDataTimeout
    \/ OnClose

SpecSession == LiveInit /\ [][SessionNext]_vars

----------------------------------------------------------------------------
(* candle-processor.js: bucket starts computed one after the other, with   *)
(* the module-level session cache as the calls before left it              *)

\* a caller computes the bucket start of a timestamp, as aggregateCandles
\* and the live updater do; the timestamps lie around 00:00 ET (05:00 UTC)
\* and around 18:00 ET (23:00 UTC) of the second and the third day
Align ==
    \E timestamp \in {d * DAY + h * HOUR + m * MINUTE : d \in {1, 2}, h \in {3, 4, 5, 22, 23}, m \in {0, 59}}, timeframe \in {"5m", "1h", "4h", "5h", "1d"} :
       /\ aligned' = [timestamp |-> timestamp, timeframe |-> timeframe,
                      value |-> AlignedStart(timestamp, timeframe,
                                             sessionBoundaryCache).value]
       /\ sessionBoundaryCache' =
             AlignedStart(timestamp, timeframe, sessionBoundaryCache).cache
       /\ UNCHANGED <<aggPc, aggTimeframe, aggStart, aggEnd, aggInput,
                      aggResult, stratVars, replayVars, liveVars>>

SpecAlign == ReplayInit /\ [][Align]_vars

----------------------------------------------------------------------------
(* cache-handlers.js: sub_strat and unsub_strat                             *)
(* The clients c1 and c2 subscribe to and unsubscribe from one registered   *)
(* strategy.  A handler reads the row with db.get and, in the callback,     *)
(* writes the changed array back with db.run; the callbacks of the handlers *)
(* of different connections run in any order.                               *)

\* sub_strat and unsub_strat requests of the model
MaxStratRequests == 4

\* a request arrives and its handler calls db.get; the callback of db.get
\* answers "Already subscribed" or "Not subscribed", or calls db.run; the
\* callback of db.run answers "Successfully ..." or the database error
SpecStrat ==
    ReplayInit /\ [][
       /\ \/ \E clientid \in {"c1", "c2"}, action \in {"sub_strat", "unsub_strat"} :
                /\ stratRequests < MaxStratRequests
                /\ clientid \notin DOMAIN stratHandlers
                /\ stratRequests' = stratRequests + 1
                /\ stratHandlers' = WithEntry(stratHandlers, clientid, [action |-> action, pc |-> "get", subscribers |-> <<>>])
                /\ UNCHANGED <<stratSubscribers, stratAcks>>
          \/ \E clientid \in DOMAIN stratHandlers :
                /\ stratHandlers[clientid].pc = "get"
                /\ stratHandlers' =
                      IF (clientid \in Range(stratSubscribers)) = (stratHandlers[clientid].action = "sub_strat")
                      THEN Without(stratHandlers, clientid)
                      ELSE [stratHandlers EXCEPT ![clientid] = [@ EXCEPT !.pc = "run", !.subscribers = IF stratHandlers[clientid].action = "sub_strat" THEN Append(stratSubscribers, clientid) ELSE SelectSeq(stratSubscribers, LAMBDA id : id # clientid)]]
                /\ UNCHANGED <<stratSubscribers, stratAcks, stratRequests>>
          \/ \E clientid \in DOMAIN stratHandlers, err \in BOOLEAN :
                /\ stratHandlers[clientid].pc = "run"
                /\ stratHandlers' = Without(stratHandlers, clientid)
                /\ stratSubscribers' = IF err THEN stratSubscribers ELSE stratHandlers[clientid].subscribers
                /\ stratAcks' = IF err THEN stratAcks ELSE WithEntry(stratAcks, clientid, stratHandlers[clientid].action)
                /\ UNCHANGED stratRequests
       /\ UNCHANGED <<sessionBoundaryCache, aggPc, aggTimeframe, aggStart, aggEnd, aggInput, aggResult, aligned, replayVars, liveVars>>]_vars

----------------------------------------------------------------------------
(* Claims about the replay (SpecReplay)                                     *)

ReplayCompleted ==
    /\ replayOut # <<>>
    /\ replayOut[Len(replayOut)].mtyp = "ctrl"

\* the positions of replayOut that carry a bar of a higher timeframe
HigherBarPositions ==
    {i \in 1..Len(replayOut) :
        replayOut[i].mtyp = "data" /\ replayOut[i].timeframe # "1m"}

SameBucket(i, j) ==
    /\ replayOut[i].instrument = replayOut[j].instrument
    /\ replayOut[i].timeframe = replayOut[j].timeframe
    /\ replayOut[i].timestamp = replayOut[j].timestamp

\* C4: in a replay the emissions of one (instrument, higher timeframe) bucket
\* are zero or more open emissions followed by exactly one closed emission:
\* nothing follows the closed emission of a bucket, and when the replay has
\* completed every emitted bucket has its closed emission.
C4_OpenThenOneClosed ==
    /\ \A i \in HigherBarPositions : \A j \in HigherBarPositions :
          (i < j /\ SameBucket(i, j)) => ~replayOut[i].isClosed
    /\ ReplayCompleted =>
          \A i \in HigherBarPositions : \E j \in HigherBarPositions :
              SameBucket(i, j) /\ replayOut[j].isClosed

----------------------------------------------------------------------------
(* Claims about aggregateCandles (SpecAgg)                                  *)

AggInterval == parseTimeframeMs(aggTimeframe)

InputBarAt(ts) == CHOOSE c \in Range(aggInput) : c.timestamp = ts

\* the input bars inside the half-open bucket [B, B + I)
InputBarsIn(B) ==
    {c \in Range(aggInput) : c.timestamp >= B /\ c.timestamp < B + AggInterval}

RECURSIVE SumVolume(_)
SumVolume(S) ==
    IF S = {} THEN 0
    ELSE LET c == CHOOSE x \in S : TRUE IN c.volume + SumVolume(S \ {c})

GapFree(s) ==
    \A i \in 1..(Len(s) - 1) : s[i + 1].timestamp = s[i].timestamp + MINUTE

----------------------------------------------------------------------------
(* Claims about the acquisition of get_data (SpecAcq)                       *)

\* cached 1-minute data was present in the last get_data request
CachedDataPresent == acqRequest # <<>> /\ acqCached # <<>>

EarliestCached == SetMin(Timestamps(acqCached))
LatestCached == SetMax(Timestamps(acqCached))

\* the positions of fetchLog with a historical request for [startMs, endMs]
HistoricalRequests(startMs, endMs) ==
    {i \in 1..Len(fetchLog) :
        /\ fetchLog[i].kind = "historical"
        /\ fetchLog[i].start = startMs
        /\ fetchLog[i].end = endMs}

EarlyRefetches == HistoricalRequests(acqRequest.startMs, EarliestCached - 60000)

LateRefetches == HistoricalRequests(LatestCached + 60000, acqRequest.endMs)

\* C8: with cached 1-minute data present, get_data issues the early
\* historical refetch of [startMs, earliest - 60000] if and only if
\* earliest - requested start > 3 days; no other historical request starts
\* before the cached data.
C8_EarlyRefetchIffBeyondCushion ==
    CachedDataPresent =>
       /\ (EarlyRefetches # {}) <=>
             (EarliestCached - acqRequest.startMs > 3 * DAY)
       /\ \A i \in 1..Len(fetchLog) :
             (fetchLog[i].kind = "historical"
                /\ fetchLog[i].start < EarliestCached) => i \in EarlyRefetches

\* the earliest cached bar is one minute more than three days after the
\* requested start, and the early refetch was issued
C8_Witness ==
    /\ CachedDataPresent
    /\ EarliestCached - acqRequest.startMs = 3 * DAY + MINUTE
    /\ EarlyRefetches # {}

\* C9 as stated: with cached 1-minute data present, the late historical
\* refetch is issued if and only if the end was explicit or
\* requested end - latest > 3 hours.
C9_AsStated ==
    CachedDataPresent =>
       ((LateRefetches # {}) <=>
          (acqRequest.end_time = "explicit"
             \/ acqRequest.endMs - LatestCached > 3 * HOUR))

\* C9, amended: the late historical refetch of [latest + 60000, endMs] is
\* issued if and only if the requested end is later than the latest cached
\* bar and either the end was explicit or requested end - latest > 3 hours.
C9_LateRefetchIffGapAndExplicitOrBeyondCushion ==
    CachedDataPresent =>
       ((LateRefetches # {}) <=>
          (/\ acqRequest.endMs > LatestCached
           /\ \/ acqRequest.end_time = "explicit"
              \/ acqRequest.endMs - LatestCached > 3 * HOUR))

\* an explicit end one minute after the latest cached bar: inside the late
\* cushion, and the late refetch was issued
C9_Witness ==
    /\ CachedDataPresent
    /\ acqRequest.end_time = "explicit"
    /\ acqRequest.endMs - LatestCached = MINUTE
    /\ LateRefetches # {}

\* C10: the 1-minute series the acquisition of get_data builds is sorted
\* ascending by timestamp and holds no two bars with the same timestamp.
C10_SeriesSortedNoDuplicates ==
    \A i \in 1..Len(acqSeries) : \A j \in 1..Len(acqSeries) :
        i < j => acqSeries[i].timestamp < acqSeries[j].timestamp

\* a series put together from the cache, an early and a late historical
\* fetch and the live tail
C10_Witness ==
    /\ CachedDataPresent
    /\ \E i \in 1..Len(acqSeries) : acqSeries[i].source = "C"
    /\ \E i \in 1..Len(acqSeries) :
          acqSeries[i].source = "H" /\ acqSeries[i].timestamp < EarliestCached
    /\ \E i \in 1..Len(acqSeries) :
          acqSeries[i].source = "H" /\ acqSeries[i].timestamp > LatestCached
    /\ \E i \in 1..Len(acqSeries) : acqSeries[i].source = "L"

----------------------------------------------------------------------------
(* Claims about the live session (Spec)                                     *)

\* an add_timeframe transition is in progress: a handleAddTimeframe call
\* has added its timeframe to the subscriptions and has not returned
TransitionInProgress == DOMAIN handlers # {}

QueuedIds == {tradeQueue[i].id : i \in 1..Len(tradeQueue)}

\* C1: while an add_timeframe transition is in progress, every trade the
\* live trade stream delivers is appended to the trade queue and none is
\* applied to the candle update.
C1_TradesQueuedDuringTransition ==
    [][(TransitionInProgress /\ tradesSent' = tradesSent + 1)
         => /\ Len(tradeQueue') = Len(tradeQueue) + 1
            /\ tradeQueue'[Len(tradeQueue')].id = tradesSent'
            /\ applied' = applied]_vars

\* C2: the trades queued during an add_timeframe transition are applied in
\* their arrival order once it completes, before any later trade, and none
\* is dropped: a trade that was queued is applied or still queued, trades
\* are applied in the order of their arrival, and no trade stays queued
\* when no transition is in progress.
C2_QueuedTradesAppliedInOrder ==
    /\ \A id \in queuedEver : id \in Range(applied) \/ id \in QueuedIds
    /\ \A i \in 1..Len(applied) : \A j \in 1..Len(applied) :
          i < j => applied[i] < applied[j]
    /\ ~TransitionInProgress => tradeQueue = <<>>

\* C3: in a live session, for each instrument and timeframe the emitted
\* bars are in non-decreasing order of (timestamp, isClosed), and a closed
\* bar is the last bar emitted for its timestamp.
C3_EmissionMonotone ==
    \A i \in 1..Len(liveOut) : \A j \in 1..Len(liveOut) :
        (/\ i < j
         /\ liveOut[i].instrument = liveOut[j].instrument
         /\ liveOut[i].timeframe = liveOut[j].timeframe)
        => \/ liveOut[i].timestamp < liveOut[j].timestamp
           \/ /\ liveOut[i].timestamp = liveOut[j].timestamp
              /\ ~liveOut[i].isClosed

\* C7: the cache holds no bar with volume 0 or a null open, high, low or
\* close, whatever was handed to batchInsertCandles, and a range query
\* returns only non-null bars.
C7_CacheHoldsNoNullBar ==
    \A instrument \in DOMAIN candlesTable :
        /\ \A t \in DOMAIN candlesTable[instrument] :
              /\ candlesTable[instrument][t][5] > 0
              /\ \A k \in 1..4 : candlesTable[instrument][t][k] # NULL
        /\ \A c \in Range(getCached1mCandles(candlesTable[instrument],
                                              LiveBase, now)) :
              ~IsNullCandle(c)

\* null bars of a historical fetch and of a live-bar fetch were handed to
\* batchInsertCandles, and the trade-built candle of 03:04 was closed on
\* rollover and is in the cache
C7_Witness ==
    /\ <<"H", TRUE>> \in offered
    /\ <<"L", TRUE>> \in offered
    /\ <<"T", FALSE>> \in offered
    /\ LiveNow \in DOMAIN candlesTable["ES"]

----------------------------------------------------------------------------
(* Claims about the upstream calls (SpecFetch)                              *)

LastAnswer == fetch.answers[Len(fetch.answers)]

\* the rejections "Invalid start time. Must be x or later" received
InvalidAnswers ==
    Cardinality({i \in DOMAIN fetch.answers : fetch.answers[i].kind = "invalid"})

\* C11: over any sequence of "Invalid start time. Must be x or later"
\* rejections fetchLive1mCandles closes the socket and connects again with
\* start x, it connects 4 times at most, after the fourth rejection the
\* promise is rejected with no socket left open, and the promise is pending
\* only while one socket is open and listened to
C11_LiveFetchRetriesCapped ==
    fetch.fn = "live" =>
      /\ fetch.attempts <= 4
      /\ fetch.open <= 1
      /\ InvalidAnswers <= 3 =>
            /\ fetch.attempts = InvalidAnswers + 1
            /\ fetch.retryCount = InvalidAnswers
      /\ (LastAnswer.kind = "invalid" /\ InvalidAnswers <= 3) =>
            /\ fetch.startMs = LastAnswer.x
            /\ fetch.open = 1
      /\ InvalidAnswers >= 4 =>
            /\ fetch.attempts = 4
            /\ fetch.status = "rejected"
            /\ fetch.open = 0
      /\ fetch.status = "pending" =>
            fetch.open = 1 /\ ~fetch.isHandlingError

\* four rejections in a row: the call has failed
C11_Witness ==
    /\ fetch.fn = "live"
    /\ InvalidAnswers = 4
    /\ Len(fetch.answers) = 5
    /\ fetch.status = "rejected"
    /\ fetch.attempts = 4

\* C12: startLiveTradesSubscription answers the rejection "Invalid start
\* time. Must be x or later" as fetchLive1mCandles does: it closes the socket
\* and subscribes again with start x, 4 times at most, and its promise is
\* pending only while a socket is open and listened to
C12_TradesRetryLikeLiveFetch ==
    fetch.fn = "trades" =>
      /\ fetch.attempts <= 4
      /\ (LastAnswer.kind = "invalid" /\ InvalidAnswers <= 3) =>
            /\ fetch.attempts = InvalidAnswers + 1
            /\ fetch.startMs = LastAnswer.x
      /\ fetch.status = "pending" =>
            fetch.open = 1 /\ ~fetch.isHandlingError

\* C13: fetchHistorical1mCandles sends 2 requests at most; the second is
\* sent after a first 422 with available_end and ends at that value; a
\* second 422, a 422 without available_end and any other failure reject;
\* an empty body resolves with the empty list
C13_HistoricalRetriesOnce ==
    fetch.fn = "historical" =>
      /\ fetch.attempts <= 2
      /\ fetch.attempts = 1 => fetch.endMs = LiveNow
      /\ fetch.attempts = 2 =>
            /\ fetch.answers[2].kind = "unprocessable"
            /\ fetch.endMs = fetch.answers[2].x
      /\ LastAnswer.kind = "unprocessable" =>
            IF Len(fetch.answers) = 2
            THEN fetch.status = "pending" /\ fetch.attempts = 2
            ELSE fetch.status = "rejected"
      /\ LastAnswer.kind \in {"bare", "error"} => fetch.status = "rejected"
      /\ LastAnswer.kind = "empty" =>
            fetch.status = "resolved" /\ fetch.result = "empty"
      /\ LastAnswer.kind = "candles" =>
            fetch.status = "resolved" /\ fetch.result = "candles"

\* a second 422 with available_end: surfaced after two requests
C13_Witness ==
    /\ fetch.fn = "historical"
    /\ Len(fetch.answers) = 3
    /\ LastAnswer.kind = "unprocessable"
    /\ fetch.attempts = 2
    /\ fetch.status = "rejected"

----------------------------------------------------------------------------
(* Claims about the end of a replay (SpecReplay, SpecReplayFair)            *)

\* C19: once the completion message of a replay is out ("Replay completed"
\* past live_end, or "Replay completed (no live data)"), the timer of the
\* session is not scheduled and the session is replay-inactive, so that
\* modify_replay is rejected and stop_replay changes nothing
C19_CompletionStopsReplay ==
    ReplayCompleted => /\ ~replayIsActive
                       /\ replayInterval \notin timers

\* the replay has a live phase whose timer is scheduled
LivePhase == replayIsActive /\ replayInterval \in timers

----------------------------------------------------------------------------
(* Claims about the modes of a session (SpecSession)                        *)

\* the upstream trade streams that are open
TradeStreams == {id \in DOMAIN sockets : sockets[id] = "trades"}

\* C14: a session is never live-active and replay-active at the same time,
\* get_data being rejected during a replay and get_replay during live data
C14_NeverLiveAndReplay == ~(isLiveActive /\ replayIsActive)

\* C15: a session has at most one live trade stream open at any moment,
\* the stream of an earlier get_data being torn down by the next one
C15_AtMostOneTradeStream == Cardinality(TradeStreams) <= 1

\* C16: once the client has disconnected no upstream stream of the session
\* is open and no replay timer is scheduled; stated for the sessions with
\* one get_data, whose trade stream is the only one (see C15)
C16_NothingOpenAfterDisconnect ==
    (~wsOpen /\ getDataRequests <= 1) => sockets = <<>> /\ timers = {}

\* C17: while the trade stream of a get_data with live_data = N seconds is
\* open, the timeout that ends it is scheduled
C17_TimerArmedWithSubscription ==
    \A id \in DOMAIN subscriptions :
       (subscriptions[id] = "number" /\ id \in DOMAIN sockets) =>
          id \in liveTimers

\* C18: a stop_data that finds the session live leaves no trade stream
\* open, and while the session is not live no trade reaches the updater
\* and no bar is emitted, until the next get_data; stated for the sessions
\* with one get_data, whose trade stream is the only one (see C15)
C18_NothingAfterStopData ==
    [][getDataRequests' <= 1 =>
         /\ (isLiveActive /\ ~isLiveActive' /\ wsOpen'
              /\ liveTimers' = liveTimers) => TradeStreams' = {}
         /\ (~isLiveActive /\ getDataRequests' = getDataRequests) =>
               liveOut' = liveOut /\ applied' = applied]_vars

----------------------------------------------------------------------------
(* Claims about modify_replay and stop_replay (SpecReplay)                  *)

C22_IntervalChangeKeepsReplayState ==
    [][\A ri \in {1000, 200} :
         (replayIsActive /\ ri # replayIntervalMs
            /\ handleModifyReplay("undefined", ri)) =>
              /\ replayIntervalMs' = ri
              /\ replayInterval' \in timers'
              /\ replayInterval' \notin timers \ {replayInterval}
              /\ timers' = (timers \ {replayInterval}) \cup {replayInterval'}
              /\ replayCurrentTime' = replayCurrentTime
              /\ replayData' = replayData
              /\ replayIsPaused' = replayIsPaused
              /\ replayOut' = replayOut]_vars

\* a replay under way whose interval was changed to 200 ms
C22_Witness ==
    /\ replayIsActive
    /\ replayIntervalMs = 200
    /\ replayInterval \in timers
    /\ replayCurrentTime > liveStartMs
    /\ replayCurrentTime <= replayLiveEndMs

\* C23: a session has at most one replay timer scheduled, and it is the one
\* ws.replayInterval refers to, which stop_replay and the close of the
\* connection clear
C23_AtMostOneReplayTimer ==
    /\ Cardinality(timers) <= 1
    /\ timers \subseteq {replayInterval}

\* C24: a stop_replay that finds the replay active leaves it inactive with
\* no timer scheduled; while the replay is inactive nothing is emitted until
\* a new get_replay, and a stop_replay of an inactive replay changes nothing
C24_StopReplayCancels ==
    [][/\ (replayIsActive /\ handleStopReplay) =>
             ~replayIsActive' /\ timers' = {} /\ replayInterval' = NULL
       /\ (~replayIsActive /\ replayRequests' = replayRequests) =>
             replayOut' = replayOut
       /\ (~replayIsActive /\ handleStopReplay) => UNCHANGED vars]_vars

----------------------------------------------------------------------------
(* Claims about the bars of the live phase of a replay (SpecReplay)         *)

\* the replay of the session was started with live_start < live_end: its
\* get_replay was not answered "Replay completed (no live data)"
HasLivePhase ==
    /\ replayRequests > 0
    /\ \A k \in DOMAIN replayOut :
          replayOut[k] # CtrlMessage("Replay completed (no live data)")

\* the 1-minute bars of instrument s that the replay has not fed yet
Unfed(s) ==
    {i \in DOMAIN replayData[s].candles1m : i > replayData[s].currentIndex}

UnfedTimes ==
    UNION {{replayData[s].candles1m[i].timestamp : i \in Unfed(s)} :
             s \in DOMAIN replayData}

\* some instrument's next bar is due at the virtual time
AnyDue ==
    \E s \in DOMAIN replayData :
       /\ replayData[s].currentIndex < Len(replayData[s].candles1m)
       /\ replayData[s].candles1m[replayData[s].currentIndex + 1].timestamp
             <= replayCurrentTime

\* the clock after an unpaused tick of a replay in its live phase: a jump to
\* the earliest of the timestamps in future when no bar was due and there is
\* one, one minute otherwise
TickClock(future) ==
    (Tick /\ HasLivePhase /\ replayIsActive /\ ~replayIsPaused) =>
       IF ~AnyDue /\ future # {}
       THEN replayCurrentTime' \in future
            /\ \A t \in future : replayCurrentTime' <= t
       ELSE replayCurrentTime' = replayCurrentTime + 60000

\* C36 as stated: on a tick where no instrument had a due bar and some
\* instrument has an unsent bar before live_end the virtual clock jumps to
\* the earliest such timestamp, and on every other unpaused tick it moves
\* by exactly 60000
C36_JumpOverGapBeforeEnd ==
    [][TickClock({t \in UnfedTimes : t < replayLiveEndMs})]_vars

\* C36, amended: on a tick where no instrument had a due bar and some
\* instrument has an unsent bar at or before live_end the virtual clock
\* jumps to the earliest such timestamp, and on every other unpaused tick
\* it moves by exactly 60000
C36_JumpOverGap ==
    [][TickClock({t \in UnfedTimes : t <= replayLiveEndMs})]_vars

\* the clock of a running replay stands on the last bar, three minutes
\* after the bar before it: it has jumped over the gap
C36_Witness ==
    /\ HasLivePhase
    /\ replayIsActive
    /\ DOMAIN replayData = {"ES"}
    /\ Len(replayData["ES"].candles1m) = 3
    /\ replayData["ES"].currentIndex = 2
    /\ replayCurrentTime = ReplaySlot(5)
    /\ replayData["ES"].candles1m[2].timestamp = ReplaySlot(1)
    /\ replayData["ES"].candles1m[3].timestamp = ReplaySlot(5)

----------------------------------------------------------------------------
(* Claims about the alignment (SpecAlign)                                   *)

\* S_day(t): the most recent 18:00 ET (23:00 UTC) at or before t
SessionStartAtOrBefore(t) == ((t - 23 * HOUR) \div DAY) * DAY + 23 * HOUR

\* C25: a bucket start b computed for timestamp t and interval I is a
\* multiple of I for the timeframes up to 1h, and lies a multiple of I after
\* the most recent session start at or before t for the timeframes above
\* 1h up to 1d, with b <= t < b + I; and it is what the same call returns
\* with an empty session cache
C25_AlignmentIndependentOfCache ==
    aligned # <<>> =>
      /\ IF parseTimeframeMs(aligned.timeframe) <= HOUR
         THEN aligned.value % parseTimeframeMs(aligned.timeframe) = 0
         ELSE (aligned.value - SessionStartAtOrBefore(aligned.timestamp))
                 % parseTimeframeMs(aligned.timeframe) = 0
      /\ aligned.value <= aligned.timestamp
      /\ aligned.timestamp
            < aligned.value + parseTimeframeMs(aligned.timeframe)
      /\ aligned.value
            = AlignedStart(aligned.timestamp, aligned.timeframe, <<>>).value

----------------------------------------------------------------------------
(* Claims about get_data with live_data "none" in a live session           *)
(* (SpecSession)                                                            *)

\* C26: a get_data with live_data "none" received while the session is
\* live-active emits the requested history and stops the live feed: after
\* it the session is not live-active and no trade stream is open
C26_GetDataNoneStopsLive ==
    [][(/\ isLiveActive
        /\ getDataRequests' = getDataRequests + 1
        /\ acqRequest'.live_data = "none") =>
          /\ Len(liveOut') > Len(liveOut)
          /\ ~isLiveActive'
          /\ TradeStreams' = {}]_vars

----------------------------------------------------------------------------
(* Claims about remove_timeframe (SpecRemove)                               *)

\* the session holds an open candle for the timeframe of the instrument
HasOpenCandle(map, instrument, timeframe) ==
    /\ instrument \in DOMAIN map
    /\ \E i \in 1..Len(map[instrument]) :
          map[instrument][i].timeframe = timeframe

\* the timeframe is not among the subscriptions of the instrument
NotSubscribed(subs, instrument, timeframe) ==
    /\ instrument \in DOMAIN subs
    /\ timeframe \notin Range(subs[instrument])

\* C27: while a pair (instrument, timeframe) is not subscribed, as after a
\* remove_timeframe and until it is subscribed again, no bar of the pair is
\* sent and no open candle of the pair exists, an add_timeframe of the pair
\* in flight at the removal included
C27_NothingAfterRemoveTimeframe ==
    [][\A timeframe \in {"5m", "4h"} :
         (/\ NotSubscribed(activeSubscriptions, "ES", timeframe)
          /\ NotSubscribed(activeSubscriptions', "ES", timeframe)) =>
            /\ ~HasOpenCandle(openCandles', "ES", timeframe)
            /\ \A i \in (Len(liveOut) + 1)..Len(liveOut') :
                  liveOut'[i].timeframe # timeframe]_vars

\* the open candles of the instrument for one timeframe
OpenCandlesOf(map, instrument, timeframe) ==
    IF instrument \in DOMAIN map
    THEN SelectSeq(map[instrument], LAMBDA c : c.timeframe = timeframe)
    ELSE <<>>

\* C28: a remove_timeframe that takes a timeframe out of the subscriptions
\* of the instrument leaves the open 1-minute candles and the open candles
\* of every other timeframe as they were; and while a timeframe of the
\* instrument remains, a trade of a later minute still closes the
\* trade-built open 1-minute candle: the candle is written to the cache and
\* the open 1-minute candle starts at the minute of the trade
C28_RemoveTimeframeKeepsOneMinuteTracking ==
    [][/\ (/\ "ES" \in DOMAIN activeSubscriptions
           /\ "ES" \in DOMAIN activeSubscriptions'
           /\ Len(activeSubscriptions'["ES"]) < Len(activeSubscriptions["ES"])) =>
             /\ open1mCandles' = open1mCandles
             /\ \A timeframe \in {"1m", "5m", "4h"} :
                   (\/ timeframe \in Range(activeSubscriptions'["ES"])
                    \/ timeframe \notin Range(activeSubscriptions["ES"])) =>
                      OpenCandlesOf(openCandles', "ES", timeframe)
                         = OpenCandlesOf(openCandles, "ES", timeframe)
       /\ (/\ NotSubscribed(activeSubscriptions, "ES", "5m")
           /\ activeSubscriptions["ES"] # <<>>
           /\ isLiveActive
           /\ ~isProcessingTimeframeChange
           /\ "ES" \in DOMAIN open1mCandles
           /\ open1mCandles["ES"].volume > 0
           /\ now >= open1mCandles["ES"].timestamp + MINUTE
           /\ tradesSent' = tradesSent + 1) =>
             /\ open1mCandles'["ES"].timestamp = (now \div MINUTE) * MINUTE
             /\ open1mCandles["ES"].timestamp \in DOMAIN candlesTable'["ES"]
             /\ candlesTable'["ES"][open1mCandles["ES"].timestamp]
                   = <<open1mCandles["ES"].open, open1mCandles["ES"].high,
                       open1mCandles["ES"].low, open1mCandles["ES"].close,
                       open1mCandles["ES"].volume>>]_vars

\* the 5m timeframe has been removed and 4h remains; the second trade, of
\* the minute after the first, was folded when no 5m candle was open, and
\* the 1-minute candle of the first trade is in the cache
C28_Witness ==
    /\ NotSubscribed(activeSubscriptions, "ES", "5m")
    /\ "4h" \in Range(activeSubscriptions["ES"])
    /\ applied = <<1, 2>>
    /\ \A i \in 1..Len(liveOut) :
          liveOut[i].timeframe = "5m" => liveOut[i].close # 102
    /\ "ES" \in DOMAIN open1mCandles
    /\ open1mCandles["ES"].timestamp = LiveNow + MINUTE
    /\ open1mCandles["ES"].close = 102
    /\ LiveNow \in DOMAIN candlesTable["ES"]
    /\ candlesTable["ES"][LiveNow] = <<101, 101, 101, 101, 1>>

----------------------------------------------------------------------------
(* Claims about the open candles of a live session (Spec)                   *)

\* C29: while the session is live-active and no timeframe change is in
\* progress, every subscribed instrument has an open 1-minute candle and
\* exactly one open candle for each of its subscribed higher timeframes,
\* also when its historical fetch failed during get_data
C29_OpenCandlesForEverySubscription ==
    (isLiveActive /\ ~isProcessingTimeframeChange /\ handlers = <<>>) =>
       \A instrument \in DOMAIN activeSubscriptions :
          /\ instrument \in DOMAIN open1mCandles
          /\ \A timeframe \in Range(activeSubscriptions[instrument]) \ {"1m"} :
                Len(OpenCandlesOf(openCandles, instrument, timeframe)) = 1

\* bucket(t, I) of the alignment rule: floor(t / I) * I for the timeframes up
\* to 1h, and above them S + floor((t - S) / I) * I with S the most recent
\* session start at or before t
Bucket(t, timeframe) ==
    IF parseTimeframeMs(timeframe) <= HOUR
    THEN (t \div parseTimeframeMs(timeframe)) * parseTimeframeMs(timeframe)
    ELSE SessionStartAtOrBefore(t)
           + ((t - SessionStartAtOrBefore(t)) \div parseTimeframeMs(timeframe))
               * parseTimeframeMs(timeframe)

\* C30: after a trade x has been applied, every open higher-timeframe
\* candle O of its instrument, whether x was folded into it or it was
\* started from x at the rollover, is the candle of x's bucket:
\* O.timestamp = bucket(x.timestamp, I) and
\* O.timestamp <= x.timestamp < O.timestamp + I
C30_FoldedTradeInBucket ==
    [][(applied' # applied /\ "ES" \in DOMAIN openCandles') =>
         \A i \in 1..Len(openCandles'["ES"]) :
            openCandles'["ES"][i].timeframe # "1m" =>
               /\ openCandles'["ES"][i].timestamp
                     = Bucket(now, openCandles'["ES"][i].timeframe)
               /\ openCandles'["ES"][i].timestamp <= now
               /\ now < openCandles'["ES"][i].timestamp
                           + parseTimeframeMs(openCandles'["ES"][i].timeframe)]_vars

----------------------------------------------------------------------------
(* Claims about the 1-minute candle of a live session (Spec)                *)

\* the 1-minute candle started from the trade the step delivers
NewOpen1m ==
    [timestamp |-> (now \div MINUTE) * MINUTE, open |-> 100 + tradesSent + 1,
     high |-> 100 + tradesSent + 1, low |-> 100 + tradesSent + 1,
     close |-> 100 + tradesSent + 1, volume |-> 1, timeframe |-> "1m",
     source |-> "T", isClosed |-> FALSE]

\* the row of the CANDLES table a candle is written as
RowOf(candle) ==
    <<candle.open, candle.high, candle.low, candle.close, candle.volume>>

\* C31: a trade x applied with x.timestamp >= open1m.timestamp + 60000
\* closes the open 1-minute candle: the closed candle and then the new one
\* are sent iff 1m is subscribed, the closed candle is written to the cache
\* iff it is not a null candle, 1m subscribed or not, and the new open
\* candle starts at floor(x.timestamp / 60000) * 60000 with x's price and
\* size
C31_OneMinuteRollover ==
    [][(/\ applied' # applied
        /\ now >= open1mCandles["ES"].timestamp + MINUTE) =>
          /\ open1mCandles'["ES"] = NewOpen1m
          /\ Len(liveOut') >= Len(liveOut)
          /\ SubSeq(liveOut', 1, Len(liveOut)) = liveOut
          /\ IF "1m" \in Range(activeSubscriptions["ES"])
             THEN /\ Len(liveOut') >= Len(liveOut) + 2
                  /\ liveOut'[Len(liveOut) + 1]
                        = DataMessage("ES", [open1mCandles["ES"] EXCEPT
                                               !.isClosed = TRUE])
                  /\ liveOut'[Len(liveOut) + 2] = DataMessage("ES", NewOpen1m)
             ELSE \A i \in (Len(liveOut) + 1)..Len(liveOut') :
                     liveOut'[i].timeframe # "1m"
          /\ IF IsNullCandle(open1mCandles["ES"])
             THEN candlesTable'["ES"] = candlesTable["ES"]
             ELSE /\ open1mCandles["ES"].timestamp \in DOMAIN candlesTable'["ES"]
                  /\ candlesTable'["ES"][open1mCandles["ES"].timestamp]
                        = RowOf(open1mCandles["ES"])]_vars

\* the second trade, of the minute after the first, has closed the candle of
\* the first while 1m was not subscribed, and that candle is in the cache
C31_Witness ==
    /\ applied = <<1, 2>>
    /\ "ES" \in DOMAIN activeSubscriptions
    /\ "1m" \notin Range(activeSubscriptions["ES"])
    /\ open1mCandles["ES"].timestamp = LiveNow + MINUTE
    /\ open1mCandles["ES"].open = 102
    /\ LiveNow \in DOMAIN candlesTable["ES"]
    /\ candlesTable["ES"][LiveNow] = <<101, 101, 101, 101, 1>>

\* C32: a trade x with x.timestamp < open1m.timestamp, the timestamp of the
\* open 1-minute candle of its instrument at that moment, is ignored: no
\* candle changes, nothing is sent and nothing is written to the cache
C32_LateTradeIgnored ==
    [][(/\ "ES" \in DOMAIN open1mCandles
        /\ now - MINUTE < open1mCandles["ES"].timestamp
        /\ tradesSent' = tradesSent + 1
        /\ processTradeForClient(
              [id |-> tradesSent + 1, timestamp |-> now - MINUTE,
               price |-> 90, size |-> 1, instrument |-> "ES"])) =>
          UNCHANGED <<open1mCandles, openCandles, liveOut, candlesTable>>]_vars

----------------------------------------------------------------------------
(* Claims about the trade queue and failed add_timeframe requests (Spec)    *)

\* C33: the trade queue of the session is empty whenever no add_timeframe
\* is in progress: neither the flag is set nor a handler is running
C33_QueueEmptyOutsideTransition ==
    (~isProcessingTimeframeChange /\ handlers = <<>>) => tradeQueue = <<>>

\* C34: an add_timeframe request that fails, here at the historical fetch it
\* makes when the cache has no bar, leaves the timeframe out of the
\* subscriptions of the instrument, as before the request, and the
\* timeframe-change flag cleared
C34_FailedAddTimeframeUndone ==
    [][\A id \in DOMAIN handlers :
         AddTimeframeHistorical(id, "error") =>
            /\ NotSubscribed(activeSubscriptions', handlers[id].instrument,
                             handlers[id].timeframe)
            /\ ~isProcessingTimeframeChange']_vars

----------------------------------------------------------------------------
(* Claims about the errors of the cache in get_data (SpecAcq)               *)

\* the last get_data request read nothing from the cache and asked the
\* vendor for its whole range
FullRangeFetched ==
    \E i \in 1..Len(fetchLog) :
       /\ fetchLog[i].part = "full"
       /\ fetchLog[i].kind = "historical"
       /\ fetchLog[i].start = acqRequest.startMs
       /\ fetchLog[i].end = acqRequest.endMs

\* the bars the vendor sent for the whole range of the last get_data, in a
\* request it answered in full, as it does when the database fails
FullRangeResponse ==
    fetchHistorical1mCandles(acqRequest.startMs, acqRequest.endMs, "all", now)

\* the 1-minute bar of timestamp t was sent to the client
Served1m(t) ==
    \E k \in DOMAIN liveOut :
       /\ liveOut[k].mtyp = "data"
       /\ liveOut[k].timeframe = "1m"
       /\ liveOut[k].timestamp = t

\* C37: a get_data whose cache read fails reads an empty list and fetches
\* its whole range from the vendor; a get_data whose cache write fails is
\* not failed by it: the bars the vendor sent for the range are served
C37_CacheErrorsDoNotFailRequest ==
    acqRequest # <<>> =>
       /\ (acqRequest.use_cache /\ acqRequest.db = "read error") =>
             acqCached = <<>> /\ FullRangeFetched
       /\ (acqRequest.save_cache /\ acqRequest.db = "write error"
             /\ FullRangeFetched) =>
             \A i \in DOMAIN FullRangeResponse :
                Served1m(FullRangeResponse[i].timestamp)

----------------------------------------------------------------------------
(* Claims about the rows of the cache (Spec)                                *)

\* C38: a 1-minute bar is inserted into the cache once and is immutable
\* thereafter: a row of an instrument and a timestamp that is in the table
\* keeps its open, high, low, close and volume through every later insert,
\* of a historical fetch, of a live-bar fetch of get_data or add_timeframe,
\* and of a trade-built candle closed on rollover
C38_CachedBarImmutable ==
    [][\A instrument \in DOMAIN candlesTable :
         \A t \in DOMAIN candlesTable[instrument] :
            /\ instrument \in DOMAIN candlesTable'
            /\ t \in DOMAIN candlesTable'[instrument]
            /\ candlesTable'[instrument][t] = candlesTable[instrument][t]]_vars

----------------------------------------------------------------------------
(* Claims about the subscribers of a strategy (SpecStrat)                   *)

\* C39: no update of the subscribers of a strategy is lost: when no
\* sub_strat or unsub_strat request is under way, the stored array holds
\* exactly the clients whose last request answered "Successfully ..." was
\* a sub_strat
C39_NoLostSubscriberUpdate ==
    stratHandlers = <<>> =>
       Range(stratSubscribers)
          = {clientid \in DOMAIN stratAcks : stratAcks[clientid] = "sub_strat"}

====
